---- MODULE Spec2Model ----
(***************************************************************************)
(* Master Hacker Terminal (masterhacker.py): the session state             *)
(* (ApplicationState) and the command engine (execute_command and the      *)
(* cmd_* handlers), and the runs of main(): demo script, interactive loop, *)
(* single command, with the signals and failures that can end them.        *)
(*                                                                         *)
(* Strings the program transforms (target names, which it upper-cases)     *)
(* are sequences of one-character strings; strings it only compares or     *)
(* prints (commands, status keys, messages) are TLA+ strings.              *)
(* Python values stored in system_status are tagged records, so that the   *)
(* isinstance tests of validate_state can be computed.                     *)
(***************************************************************************)
EXTENDS Integers, Sequences, FiniteSets, TLC

(***************************************************************************)
(* Bounds of the model.                                                    *)
(***************************************************************************)
\* cnt counts the operations executed since construction and saturates here
StepCap == 2
\* number of calls a script makes on an ApplicationState it drives directly
MaxOps == 3
\* number of states of the random generator
RngMod == 4
\* the terminal widths considered: from -BelowZero to MaxWidth columns
BelowZero == 3
MaxWidth == 104

(***************************************************************************)
(* Constants of the program.                                               *)
(***************************************************************************)
STATUS_ONLINE == "ONLINE"
STATUS_OFFLINE == "OFFLINE"
STATUS_ENABLED == "ENABLED"
STATUS_DISABLED == "DISABLED"
STATUS_SECURITY_MAXIMUM == "MAXIMUM"
STATUS_STEALTH_ON == "ON"
STATUS_STEALTH_OFF == "OFF"
DEMO_HACK_SYSTEMS == 5
DEMO_HACK_CREDITS == 1337
DEFAULT_CONNECTIONS == 3
DEFAULT_COMPROMISED_SYSTEMS == 0
DEFAULT_CREDITS == 0
DEMO_RANDOM_SEED == 1337
DISPLAY_WIDTH_COMPACT_THRESHOLD == 62
DISPLAY_WIDTH_STANDARD_THRESHOLD == 99
DISPLAY_DEFAULT_TERMINAL_WIDTH == 80
EXIT_SUCCESS == 0
EXIT_FAILURE == 1
PROGRESS_BAR_STEPS_SCAN == 24
PROGRESS_BAR_STEPS_DECRYPT == 26
PROGRESS_BAR_STEPS_INFILTRATE == 28
PROGRESS_BAR_STEPS_HACK == 30
PROGRESS_BAR_STEPS_TRACE == 25
PROGRESS_BAR_STEPS_COUNTERTRACE == 22
\* coordinates are counted in units of 10^-4 degree (COORDINATE_PRECISION = 4)
COORDINATE_LAT_MIN == -900000
COORDINATE_LAT_MAX == 900000
COORDINATE_LON_MIN == -1800000
COORDINATE_LON_MAX == 1800000

(***************************************************************************)
(* Python values.                                                          *)
(***************************************************************************)
BoolV(x) == [t |-> "bool", b |-> x, n |-> 0, s |-> ""]
IntV(x) == [t |-> "int", b |-> FALSE, n |-> x, s |-> ""]
StrV(x) == [t |-> "str", b |-> FALSE, n |-> 0, s |-> x]
NoneV == [t |-> "none", b |-> FALSE, n |-> 0, s |-> ""]

\* isinstance(v, bool)
IsBool(v) == v.t = "bool"
\* isinstance(v, int): bool is a subclass of int
IsInt(v) == v.t \in {"int", "bool"}
\* isinstance(v, str)
IsStr(v) == v.t = "str"
\* bool(v), as a conditional expression evaluates it
Truthy(v) ==
    CASE v.t = "bool" -> v.b
      [] v.t = "int" -> v.n # 0
      [] v.t = "str" -> v.s # ""
      [] OTHER -> FALSE

(***************************************************************************)
(* Character strings and str.upper / str.strip.                            *)
(***************************************************************************)
LowerLetters ==
    << "a", "b", "c", "d", "e", "f", "g", "h", "i", "j", "k", "l", "m",
       "n", "o", "p", "q", "r", "s", "t", "u", "v", "w", "x", "y", "z" >>
UpperLetters ==
    << "A", "B", "C", "D", "E", "F", "G", "H", "I", "J", "K", "L", "M",
       "N", "O", "P", "Q", "R", "S", "T", "U", "V", "W", "X", "Y", "Z" >>
Whitespace == {" ", "\t", "\n"}

\* the upper-case form of each lower-case letter
UpperOf ==
    [c \in {LowerLetters[i] : i \in 1..26} |->
        UpperLetters[CHOOSE i \in 1..26 : LowerLetters[i] = c]]

\* every other character is its own upper-case form
UpperChar(c) == IF c \in DOMAIN UpperOf THEN UpperOf[c] ELSE c

\* str.upper()
Upper(str) == [i \in 1..Len(str) |-> UpperChar(str[i])]

\* str.strip() == "" : nothing but whitespace
IsBlank(str) == \A i \in 1..Len(str) : str[i] \in Whitespace

MAINFRAME7 == << "M", "A", "I", "N", "F", "R", "A", "M", "E", "-", "7" >>
QUANTUMDB == << "Q", "U", "A", "N", "T", "U", "M", "-", "D", "B" >>
SATELLITEX == << "S", "A", "T", "E", "L", "L", "I", "T", "E", "-", "X" >>
NEXUSCORE == << "N", "E", "X", "U", "S", "-", "C", "O", "R", "E" >>
CRYPTOVAULT == << "C", "R", "Y", "P", "T", "O", "-", "V", "A", "U", "L", "T" >>
DATACENTER == << "D", "A", "T", "A", "-", "C", "E", "N", "T", "E", "R" >>

PREDEFINED_LOCATIONS ==
    [name \in {QUANTUMDB, MAINFRAME7, SATELLITEX, NEXUSCORE, CRYPTOVAULT, DATACENTER} |->
        CASE name = QUANTUMDB ->
                [coords |-> "37.7749 deg N, 122.4194 deg W", isp |-> "CyberCorp Industries"]
          [] name = MAINFRAME7 ->
                [coords |-> "40.7128 deg N, 74.0060 deg W", isp |-> "MegaCorp Systems"]
          [] name = SATELLITEX ->
                [coords |-> "51.5074 deg N, 0.1278 deg W", isp |-> "SkyNet Communications"]
          [] name = NEXUSCORE ->
                [coords |-> "35.6762 deg N, 139.6503 deg E", isp |-> "Tech Dynamics"]
          [] name = CRYPTOVAULT ->
                [coords |-> "52.5200 deg N, 13.4050 deg E", isp |-> "SecureMax GmbH"]
          [] OTHER ->
                [coords |-> "34.0522 deg N, 118.2437 deg W", isp |-> "InfoTech Solutions"]]

(***************************************************************************)
(* Output: the sequence of things an operation writes or shows.            *)
(***************************************************************************)
Event(ev, text, arg, val, val2) ==
    [ev |-> ev, text |-> text, arg |-> arg, val |-> val, val2 |-> val2]
\* print(text)
Line(text) == Event("print", text, <<>>, NoneV, NoneV)
\* print of a format string with a target name in it
LineName(text, name) == Event("print", text, name, NoneV, NoneV)
\* print of a format string with one or two values in it
LineVal(text, v) == Event("print", text, <<>>, v, NoneV)
LineVals(text, v, w) == Event("print", text, <<>>, v, w)
\* progress(label, steps, delay, state)
Progress(label, steps) == Event("progress", label, <<>>, IntV(steps), NoneV)
\* show_warning(state), show_access_granted(state)
ShowWarning == Event("show_warning", "", <<>>, NoneV, NoneV)
ShowAccessGranted == Event("show_access_granted", "", <<>>, NoneV, NoneV)
\* os.system('clear')
ClearScreen == Event("clear_screen", "", <<>>, NoneV, NoneV)

MsgTargetNotFound == "Target not found. Run 'scan' first."
MsgInfiltrateUsage == "Target required. Usage: infiltrate <target>"
MsgTraceUsage == "Target required. Usage: trace <target>"
MsgRootObtained == "Root privileges obtained."
MsgNotRecognized == "Command not recognized. Type 'help' for available commands."

(***************************************************************************)
(* Exceptions: the value of err after an operation.                        *)
(***************************************************************************)
NoError == "none"
ErrInvalidKey == "ValueError: Invalid system status key"
ErrDuplicate == "ValueError: Target already exists in discovered targets"
ErrEmptyTarget == "ValueError: Target name and type cannot be empty"
ErrInfiltratedName == "ValueError: Target name must be a non-empty string"
ErrKeyError == "KeyError"
ErrSystemExit == "SystemExit"

(***************************************************************************)
(* class ApplicationState.  A state is the record of its five fields; an   *)
(* operation returns the state it leaves, what it wrote and the exception  *)
(* it raised (NoError when it returned).                                   *)
(***************************************************************************)
StatusKeys ==
    {"online", "security_level", "connections", "firewall", "stealth",
     "compromised_systems", "credits"}

\* the default_factory of system_status
DefaultStatus ==
    [k \in StatusKeys |->
        CASE k = "online" -> BoolV(TRUE)
          [] k = "security_level" -> StrV(STATUS_SECURITY_MAXIMUM)
          [] k = "connections" -> IntV(DEFAULT_CONNECTIONS)
          [] k = "firewall" -> BoolV(TRUE)
          [] k = "stealth" -> BoolV(TRUE)
          [] k = "compromised_systems" -> IntV(DEFAULT_COMPROMISED_SYSTEMS)
          [] OTHER -> IntV(DEFAULT_CREDITS)]

\* ApplicationState(): the dataclass defaults, with the display modes given
NewState(umode, wmode) ==
    [unicode_mode |-> umode,
     width_mode |-> wmode,
     discovered_targets |-> <<>>,
     infiltrated_targets |-> {},
     system_status |-> DefaultStatus]

Result(st, o, e) == [st |-> st, out |-> o, err |-> e]

\* {target[0] for target in discovered_targets}
TargetNames(disc) == {disc[i][1] : i \in 1..Len(disc)}

\* d[k] = v on a Python dict: an absent key is added
DictSet(d, k, v) == [x \in DOMAIN d \cup {k} |-> IF x = k THEN v ELSE d[x]]

\* validate_state: the message of the ValueError it raises, NoError when it
\* returns True.  The structural tests on discovered_targets and
\* infiltrated_targets hold of every value the model can build.
validate_state(st) ==
    LET ss == st.system_status IN
    CASE st.unicode_mode \notin {"auto", "on", "off"} ->
            "ValueError: Invalid unicode_mode"
      [] st.width_mode \notin {"auto", "compact", "standard", "wide"} ->
            "ValueError: Invalid width_mode"
      [] StatusKeys \ DOMAIN ss # {} ->
            "ValueError: system_status missing required keys"
      [] ~IsBool(ss["online"]) ->
            "ValueError: system_status['online'] must be a boolean"
      [] ~IsStr(ss["security_level"]) ->
            "ValueError: system_status['security_level'] must be a string"
      [] ~IsInt(ss["connections"]) ->
            "ValueError: system_status['connections'] must be an integer"
      [] ~IsBool(ss["firewall"]) ->
            "ValueError: system_status['firewall'] must be a boolean"
      [] ~IsBool(ss["stealth"]) ->
            "ValueError: system_status['stealth'] must be a boolean"
      [] ~IsInt(ss["compromised_systems"]) ->
            "ValueError: system_status['compromised_systems'] must be an integer"
      [] ~IsInt(ss["credits"]) ->
            "ValueError: system_status['credits'] must be an integer"
      [] OTHER -> NoError

\* an insertion without the search for the name
add_discovered_target_noSearch(st, name, target_type) ==
    IF IsBlank(name) \/ target_type = ""
    THEN Result(st, <<>>, ErrEmptyTarget)
    ELSE Result([st EXCEPT !.discovered_targets = Append(@, <<name, target_type>>)],
                <<>>, NoError)

\* add_discovered_target(name, target_type)
add_discovered_target(st, name, target_type) ==
    IF IsBlank(name) \/ target_type = ""
    THEN Result(st, <<>>, ErrEmptyTarget)
    ELSE IF name \in TargetNames(st.discovered_targets)
    THEN Result(st, <<>>, ErrDuplicate)
    ELSE Result([st EXCEPT !.discovered_targets = Append(@, <<name, target_type>>)],
                <<>>, NoError)

\* a storage layer that asks for prior discovery
add_infiltrated_target_discoveredOnly(st, name) ==
    IF IsBlank(name) \/ name \notin TargetNames(st.discovered_targets)
    THEN Result(st, <<>>, ErrInfiltratedName)
    ELSE Result([st EXCEPT !.infiltrated_targets = @ \cup {name}], <<>>, NoError)

\* add_infiltrated_target(name)
add_infiltrated_target(st, name) ==
    IF IsBlank(name)
    THEN Result(st, <<>>, ErrInfiltratedName)
    ELSE Result([st EXCEPT !.infiltrated_targets = @ \cup {name}], <<>>, NoError)

\* a guard that lets every key through
InvalidStatusKey_never(ss, key) == FALSE

\* the guard of update_system_status: key not in self.system_status
InvalidStatusKey(ss, key) == key \notin DOMAIN ss

\* update_system_status(key, value): the assignment comes first, the
\* validation after it
update_system_status(st, key, value) ==
    IF InvalidStatusKey(st.system_status, key)
    THEN Result(st, <<>>, ErrInvalidKey)
    ELSE LET st2 == [st EXCEPT !.system_status = DictSet(@, key, value)]
         IN  Result(st2, <<>>, validate_state(st2))

\* a reset that leaves the infiltrated targets in place
reset_state_keepsInfiltrated(st) ==
    Result([NewState("auto", "auto") EXCEPT !.infiltrated_targets = st.infiltrated_targets],
           <<>>, NoError)

\* reset_state()
reset_state(st) == Result(NewState("auto", "auto"), <<>>, NoError)

(***************************************************************************)
(* The cmd_* handlers.  A target argument is a character string, or None.  *)
(***************************************************************************)
\* target = args[0] if args else None
None == << "<None>" >>
FirstArg(args) == IF Len(args) > 0 THEN args[1] ELSE None

\* a check that takes every argument for a target
NoTarget_never(target) == FALSE

\* not target: None and the empty string are both falsy
NoTarget(target) == target = None \/ target = <<>>

\* the fixed target list cmd_scan assigns
ScanCatalog ==
    << <<MAINFRAME7, "low">>, <<QUANTUMDB, "high">>, <<SATELLITEX, "medium">> >>

\* the lines cmd_scan prints for the targets, one for each in list order
TargetLines(disc) ==
    [i \in 1..Len(disc) |->
        Event("print", "- {name} (security: {security})", disc[i][1],
              StrV(disc[i][2]), NoneV)]

cmd_help(st) == Result(st, << Line("Available commands: ...") >>, NoError)

\* a scan that extends the list it finds
ScanResult_appends(disc) == disc \o ScanCatalog

\* a scan that lists the targets found last first
ScanResult_lastFirst(disc) == << ScanCatalog[3], ScanCatalog[2], ScanCatalog[1] >>

\* the value cmd_scan assigns to discovered_targets
ScanResult(disc) == ScanCatalog

\* a scan that starts the session over: the infiltrated targets are dropped
cmd_scan_dropsInfiltrated(st) ==
    LET st2 == [st EXCEPT !.discovered_targets = ScanResult(@),
                          !.infiltrated_targets = {}] IN
    Result(st2,
           << Progress("Scanning network", PROGRESS_BAR_STEPS_SCAN),
              LineVal("Found {n} targets:", IntV(Len(st2.discovered_targets))) >>
             \o TargetLines(st2.discovered_targets),
           NoError)

cmd_scan(st) ==
    LET st2 == [st EXCEPT !.discovered_targets = ScanResult(@)] IN
    Result(st2,
           << Progress("Scanning network", PROGRESS_BAR_STEPS_SCAN),
              LineVal("Found {n} targets:", IntV(Len(st2.discovered_targets))) >>
             \o TargetLines(st2.discovered_targets),
           NoError)

DecryptMessages ==
    << "THE CAKE IS A LIE", "TRUST NO ONE", "FOLLOW THE WHITE RABBIT",
       "THE MATRIX HAS YOU", "WAKE UP NEO", "I AM ROOT" >>

\* cmd_decrypt, pick being the index random.choice draws
cmd_decrypt(st, pick) ==
    Result(st,
           << Progress("Decrypting data", PROGRESS_BAR_STEPS_DECRYPT),
              LineVal("Decrypted message: {message}", StrV(DecryptMessages[pick])) >>,
           NoError)

\* a gate that only asks whether anything was discovered
TargetUnknown_emptyOnly(target, disc) == disc = <<>>

\* a gate that is always open
TargetUnknown_never(target, disc) == FALSE

\* target not in target_names, after target = target.upper()
TargetUnknown(target, disc) == target \notin TargetNames(disc)

\* the argument as it was typed
InfiltrateName_asTyped(target) == target

\* the name cmd_infiltrate looks up and stores
InfiltrateName(target) == Upper(target)

cmd_infiltrate(target, st) ==
    IF NoTarget(target)
    THEN Result(st, << Line(MsgInfiltrateUsage) >>, NoError)
    ELSE LET name == InfiltrateName(target) IN
         IF TargetUnknown(name, st.discovered_targets)
         THEN Result(st, << Line(MsgTargetNotFound) >>, NoError)
         ELSE Result([st EXCEPT !.infiltrated_targets = @ \cup {name}],
                     << ShowWarning,
                        LineName("Infiltrating {target}...", name),
                        Progress("Bypassing security", PROGRESS_BAR_STEPS_INFILTRATE),
                        ShowAccessGranted,
                        Line(MsgRootObtained) >>,
                     NoError)

\* a hack that adds to the counters it finds
HackStatus_adds(ss) ==
    DictSet(DictSet(ss, "compromised_systems",
                    IntV(ss["compromised_systems"].n + DEMO_HACK_SYSTEMS)),
            "credits", IntV(ss["credits"].n + DEMO_HACK_CREDITS))

\* a hack that books the credits only
HackStatus_creditsOnly(ss) == DictSet(ss, "credits", IntV(DEMO_HACK_CREDITS))

\* the two assignments of cmd_hack to system_status
HackStatus(ss) ==
    DictSet(DictSet(ss, "compromised_systems", IntV(DEMO_HACK_SYSTEMS)),
            "credits", IntV(DEMO_HACK_CREDITS))

cmd_hack(st) ==
    Result([st EXCEPT !.system_status = HackStatus(@)],
           << ShowWarning,
              Line("Initiating hack sequence..."),
              Progress("Exploiting vulnerabilities", PROGRESS_BAR_STEPS_HACK),
              ShowAccessGranted,
              Line("HACK SUCCESSFUL"),
              LineVal("Systems compromised: {systems}", IntV(DEMO_HACK_SYSTEMS)),
              LineVal("Credits earned: {credits}", IntV(DEMO_HACK_CREDITS)) >>,
           NoError)

FallbackIsps == << "CyberCorp Industries", "TechMax Solutions", "DataFlow Systems" >>

\* a report that knows the targets of the location table only
TraceReport_tableOnly(name, rnd) ==
    IF name \in DOMAIN PREDEFINED_LOCATIONS
    THEN << LineVal("Location found: {coords}", StrV(PREDEFINED_LOCATIONS[name].coords)),
            LineVal("ISP: {isp}", StrV(PREDEFINED_LOCATIONS[name].isp)) >>
    ELSE << Line(MsgTargetNotFound) >>

\* the two lines cmd_trace ends with: the entry of the location table, or the
\* fallback made of the draws rnd: lat and lon in units of 10^-4 degree (the
\* value round(..., 4) leaves), isp an index
TraceReport(name, rnd) ==
    IF name \in DOMAIN PREDEFINED_LOCATIONS
    THEN << LineVal("Location found: {coords}", StrV(PREDEFINED_LOCATIONS[name].coords)),
            LineVal("ISP: {isp}", StrV(PREDEFINED_LOCATIONS[name].isp)) >>
    ELSE << LineVals("Location found: {lat} deg N, {lon} deg W",
                     IntV(rnd.lat), IntV(rnd.lon)),
            LineVal("ISP: {isp}", StrV(FallbackIsps[rnd.isp])) >>

\* cmd_trace, rnd being the draws of the random source
cmd_trace(target, st, rnd) ==
    IF NoTarget(target)
    THEN Result(st, << Line(MsgTraceUsage) >>, NoError)
    ELSE LET name == Upper(target) IN
         Result(st,
                << LineName("Tracing {target}...", name),
                   Progress("Triangulating position", PROGRESS_BAR_STEPS_TRACE) >>
                \o TraceReport(name, rnd),
                NoError)

\* a countertrace that wipes the record of infiltrated systems
cmd_countertrace_wipes(st) ==
    Result([st EXCEPT !.infiltrated_targets = {}],
           << Line("Deploying countermeasures..."),
              Progress("Scrambling identity", PROGRESS_BAR_STEPS_COUNTERTRACE),
              ShowAccessGranted,
              Line("Trace blocked. Identity scrambled.") >>,
           NoError)

cmd_countertrace(st) ==
    Result(st,
           << Line("Deploying countermeasures..."),
              Progress("Scrambling identity", PROGRESS_BAR_STEPS_COUNTERTRACE),
              ShowAccessGranted,
              Line("Trace blocked. Identity scrambled.") >>,
           NoError)

\* status_map[v]: the dict has the keys True and False, which 1 and 0 equal
InStatusMap(v) == v.t = "bool" \/ (v.t = "int" /\ v.n \in {0, 1})

\* a status_map with its two texts exchanged
StatusMapText_swapped(v) == IF Truthy(v) THEN STATUS_DISABLED ELSE STATUS_ENABLED

\* status_map[v], for a v that is in the map
StatusMapText(v) == IF Truthy(v) THEN STATUS_ENABLED ELSE STATUS_DISABLED

\* the lines cmd_status prints for a system_status ss, and the exception that
\* ends it: the lookup in status_map raises KeyError after the third line
StatusLines(ss) ==
    LET head == << LineVal("System Status: {}",
                           StrV(IF Truthy(ss["online"]) THEN STATUS_ONLINE
                                                        ELSE STATUS_OFFLINE)),
                   LineVal("Security Level: {}", ss["security_level"]),
                   LineVal("Active Connections: {}", ss["connections"]) >>
    IN  IF ~InStatusMap(ss["firewall"])
        THEN [out |-> head, err |-> ErrKeyError]
        ELSE [out |-> head \o
                      << LineVal("Firewall: {}", StrV(StatusMapText(ss["firewall"]))),
                         LineVal("Stealth Mode: {}",
                                 StrV(IF Truthy(ss["stealth"]) THEN STATUS_STEALTH_ON
                                                               ELSE STATUS_STEALTH_OFF)) >>,
              err |-> NoError]

\* a status that counts itself as one more active connection
cmd_status_counts(st) ==
    Result([st EXCEPT !.system_status =
                DictSet(@, "connections", IntV(@["connections"].n + 1))],
           StatusLines(st.system_status).out, StatusLines(st.system_status).err)

\* cmd_status: reads system_status and prints
cmd_status(st) ==
    Result(st, StatusLines(st.system_status).out, StatusLines(st.system_status).err)

cmd_clear(st) == Result(st, << ClearScreen >>, NoError)

\* cmd_exit: sys.exit raises SystemExit
cmd_exit(st) ==
    Result(st, << Line("Connection terminated."), Line("Stay anonymous, hacker.") >>,
           ErrSystemExit)

(***************************************************************************)
(* execute_command(cmd, args, state).  cmd is a string or NoCmd (None);    *)
(* rnd holds the draws of the random source the handler may make.  The     *)
(* result has the value returned: "True", "False", or "raise" when an      *)
(* exception leaves the call.                                              *)
(***************************************************************************)
NoCmd == "<None>"

\* the names the elif chain tests for
DispatchTable ==
    {"help", "scan", "decrypt", "infiltrate", "hack", "trace", "countertrace",
     "evade", "status", "clear", "exit"}

WithRet(r, ret) == [st |-> r.st, out |-> r.out, err |-> r.err, ret |-> ret]
\* a result that tells whether the command did its work
Returned_byOutcome(r) ==
    WithRet(r, IF r.err # NoError THEN "raise"
               ELSE IF r.out # <<>> /\ r.out[1] \in { Line(MsgInfiltrateUsage),
                                                       Line(MsgTraceUsage),
                                                       Line(MsgTargetNotFound) }
               THEN "False" ELSE "True")

\* return True after the elif chain
Returned(r) == WithRet(r, IF r.err = NoError THEN "True" ELSE "raise")

\* an else branch that reports success
NotRecognized_true(st) == WithRet(Result(st, << Line(MsgNotRecognized) >>, NoError), "True")

\* the final else branch
NotRecognized(st) == WithRet(Result(st, << Line(MsgNotRecognized) >>, NoError), "False")

execute_command(cmd, args, st, rnd) ==
    CASE cmd = NoCmd -> WithRet(Result(st, <<>>, NoError), "False")
      [] cmd = "help" -> Returned(cmd_help(st))
      [] cmd = "scan" -> Returned(cmd_scan(st))
      [] cmd = "decrypt" -> Returned(cmd_decrypt(st, rnd.pick))
      [] cmd = "infiltrate" -> Returned(cmd_infiltrate(FirstArg(args), st))
      [] cmd = "hack" -> Returned(cmd_hack(st))
      [] cmd = "trace" -> Returned(cmd_trace(FirstArg(args), st, rnd))
      [] cmd \in {"countertrace", "evade"} -> Returned(cmd_countertrace(st))
      [] cmd = "status" -> Returned(cmd_status(st))
      [] cmd = "clear" -> Returned(cmd_clear(st))
      [] cmd = "exit" -> Returned(cmd_exit(st))
      [] OTHER -> NotRecognized(st)

(***************************************************************************)
(* Inputs.                                                                 *)
(***************************************************************************)
\* argument strings, as parse_command yields them (non-empty, no whitespace):
\* catalog names in upper, lower and mixed case, a name of the location table
\* that is no scan target, an unknown name in both cases
ArgStrings ==
    { MAINFRAME7,
      << "m", "a", "i", "n", "f", "r", "a", "m", "e", "-", "7" >>,
      << "M", "a", "i", "n", "F", "r", "a", "m", "e", "-", "7" >>,
      << "q", "u", "a", "n", "t", "u", "m", "-", "d", "b" >>,
      << "S", "a", "t", "e", "l", "l", "i", "t", "e", "-", "x" >>,
      NEXUSCORE,
      << "Z", "Z", "Z", "Z", "-", "9" >>,
      << "z", "z", "z", "z", "-", "9" >> }

\* argument lists: none, one argument, and two
ArgLists ==
    { <<>> } \cup { << a >> : a \in ArgStrings }
      \cup { << << "z", "z", "z", "z", "-", "9" >>, MAINFRAME7 >> }
\* the argument lists given to the commands that take no argument
FewArgLists == { <<>>, << MAINFRAME7 >> }

\* lower-case words that are not in the dispatch table
UnknownCmds == { "foo", "reset", "sudo" }

\* draws of the random source: an index into the decrypt messages, a latitude
\* and a longitude in units of 10^-4 degree, an index into the fallback ISPs
LatSamples == { COORDINATE_LAT_MIN, COORDINATE_LAT_MAX }
LonSamples == { COORDINATE_LON_MIN, COORDINATE_LON_MAX }
NoDraw == [pick |-> 1, lat |-> 0, lon |-> 0, isp |-> 1]
\* the draw cmd_decrypt makes, and the draws cmd_trace makes
DecryptDraws == { [NoDraw EXCEPT !.pick = i] : i \in 1..Len(DecryptMessages) }
TraceDraws ==
    { [NoDraw EXCEPT !.lat = la, !.lon = lo, !.isp = i] :
        la \in LatSamples, lo \in LonSamples, i \in 1..Len(FallbackIsps) }
\* the display modes a run is started with (--unicode, --width)
StartModes == { << "auto", "auto" >>, << "on", "compact" >>, << "off", "wide" >> }

\* values offered to update_system_status
Values == { BoolV(TRUE), BoolV(FALSE), IntV(7), StrV("yes") }
\* commands and argument lists a script passes to execute_command
ScriptCmds == DispatchTable \cup { NoCmd, "foo" }
ScriptArgLists ==
    { <<>>, << MAINFRAME7 >>, << << "m", "a", "i", "n", "f", "r", "a", "m", "e", "-", "7" >> >>,
      << << "z", "z", "z", "z", "-", "9" >> >> }
\* keys offered to update_system_status: the seven fields and two others
Keys == StatusKeys \cup { "securityLevel", "bogus" }
\* names and types offered to the add_* methods
ApiNames == { MAINFRAME7, << "z", "z", "z", "z", "-", "9" >>, <<>>, << " " >> }
ApiTypes == { "low", "" }

(***************************************************************************)
(* The state machine.                                                      *)
(***************************************************************************)
VARIABLES
    unicode_mode, width_mode,       \* ApplicationState: display configuration
    discovered_targets,             \* ApplicationState: list of (name, type)
    infiltrated_targets,            \* ApplicationState: set of names
    system_status,                  \* ApplicationState: dict key -> value
    running,                        \* the process has not exited
    out, err, ret,                  \* output, exception and result of the last operation
    last,                           \* the last operation and its inputs
    everDiscovered,                 \* history: names that have been in discovered_targets
    cnt,                            \* history: operations executed, up to StepCap
    ops,                            \* history: calls made by a script driving the state
    prevStatus,                     \* history: the script's call before its last was status
    mode,                           \* main: the branch the command line selects
    cmdline,                        \* main: the parsed positional command, if any
    pc,                             \* the run: where control is
    ctx,                            \* the run: the try block cmd_exit was entered in
    idx,                            \* run_demo_script: index of the next demo command
    rng,                            \* state of the random module's generator
    exits,                          \* history: number of times cmd_exit was entered
    exitCode,                       \* exit status of the process, NoExitCode while it runs
    cause,                          \* history: what began the termination
    via,                            \* history: the statement that ended the process
    errSeen,                        \* history: the loop has printed a user-facing error
    interrupted,                    \* history: a KeyboardInterrupt was delivered
    env,                            \* the process environment and the terminal
    call                            \* the call of a display function: inputs, position, result

vars ==
    << unicode_mode, width_mode, discovered_targets, infiltrated_targets,
       system_status, running, out, err, ret, last, everDiscovered, cnt, ops,
       prevStatus, mode, cmdline, pc, ctx, idx, rng, exits, exitCode, cause, via,
       errSeen, interrupted, env, call >>

\* the variables of the display functions
dispVars == << env, call >>

\* the variables of a run of main
runVars ==
    << mode, cmdline, pc, ctx, idx, rng, exits, exitCode, cause, via, errSeen,
       interrupted >>

\* the ApplicationState instance
app ==
    [unicode_mode |-> unicode_mode,
     width_mode |-> width_mode,
     discovered_targets |-> discovered_targets,
     infiltrated_targets |-> infiltrated_targets,
     system_status |-> system_status]

data == << discovered_targets, infiltrated_targets, system_status >>

Op(op, cmd, args, key, val) ==
    [op |-> op, cmd |-> cmd, args |-> args, key |-> key, val |-> val]

\* the state after ApplicationState() and the assignment of the two modes
Start(umode, wmode) ==
    /\ unicode_mode = umode
    /\ width_mode = wmode
    /\ discovered_targets = <<>>
    /\ infiltrated_targets = {}
    /\ system_status = DefaultStatus
    /\ running = TRUE
    /\ out = <<>>
    /\ err = NoError
    /\ ret = "None"
    /\ last = Op("init", "", <<>>, "", NoneV)
    /\ everDiscovered = {}
    /\ cnt = 0
    /\ ops = 0
    /\ prevStatus = FALSE

\* a parsed command line: the pair parse_command returns
CmdLine(cmd, args) == [cmd |-> cmd, args |-> args]
NoLine == CmdLine(NoCmd, <<>>)
\* the value of exitCode while the process runs: no exit status
NoExitCode == EXIT_SUCCESS - 1

\* the run of main that is beginning: its mode, positional command and the
\* state the generator happens to be in
StartRun(md, line, s) ==
    /\ mode = md
    /\ cmdline = line
    /\ pc = "start"
    /\ ctx = "main"
    /\ idx = 1
    /\ rng = s
    /\ exits = 0
    /\ exitCode = NoExitCode
    /\ cause = "none"
    /\ via = "none"
    /\ errSeen = FALSE
    /\ interrupted = FALSE

\* no run of main: the state is driven by calls
NoRun == StartRun("session", NoLine, 0)

\* no display function is under study: an environment of no interest
NoEnv == [kind |-> "none"]
NoCall == [fn |-> "none"]
NoDisplay == env = NoEnv /\ call = NoCall

\* main: app_state = ApplicationState(), then the modes argparse accepted
Init == \E m \in StartModes : Start(m[1], m[2]) /\ NoRun /\ NoDisplay

\* the state an operation leaves, with its output, exception and result
CommitData(r, l) ==
    /\ unicode_mode' = r.st.unicode_mode
    /\ width_mode' = r.st.width_mode
    /\ discovered_targets' = r.st.discovered_targets
    /\ infiltrated_targets' = r.st.infiltrated_targets
    /\ system_status' = r.st.system_status
    /\ out' = r.out
    /\ err' = r.err
    /\ ret' = r.ret
    /\ last' = l
    /\ everDiscovered' = everDiscovered \cup TargetNames(r.st.discovered_targets)
    /\ cnt' = IF cnt < StepCap THEN cnt + 1 ELSE cnt

\* the same, for an operation called directly: SystemExit ends the process
Commit(r, l) ==
    /\ CommitData(r, l)
    /\ running' = (r.err # ErrSystemExit)

\* one call of execute_command
Exec(cmd, args, rnd) ==
    /\ running
    /\ Commit(execute_command(cmd, args, app, rnd), Op("execute_command", cmd, args, "", NoneV))
    /\ UNCHANGED << ops, prevStatus >>
    /\ UNCHANGED runVars
    /\ UNCHANGED dispVars

Help == \E args \in FewArgLists : Exec("help", args, NoDraw)
Scan == \E args \in FewArgLists : Exec("scan", args, NoDraw)
Decrypt == \E args \in FewArgLists, rnd \in DecryptDraws : Exec("decrypt", args, rnd)
Infiltrate == \E args \in ArgLists : Exec("infiltrate", args, NoDraw)
Hack == \E args \in FewArgLists : Exec("hack", args, NoDraw)
Trace == \E args \in ArgLists, rnd \in TraceDraws : Exec("trace", args, rnd)
Countertrace == \E args \in FewArgLists : Exec("countertrace", args, NoDraw)
Evade == \E args \in FewArgLists : Exec("evade", args, NoDraw)
Status == \E args \in FewArgLists : Exec("status", args, NoDraw)
Clear == \E args \in FewArgLists : Exec("clear", args, NoDraw)
Exit == \E args \in FewArgLists : Exec("exit", args, NoDraw)
Unrecognized == \E cmd \in UnknownCmds, args \in FewArgLists : Exec(cmd, args, NoDraw)
Empty == \E args \in FewArgLists : Exec(NoCmd, args, NoDraw)

Next ==
    \/ Help
    \/ Scan
    \/ Decrypt
    \/ Infiltrate
    \/ Hack
    \/ Trace
    \/ Countertrace
    \/ Evade
    \/ Status
    \/ Clear
    \/ Exit
    \/ Unrecognized
    \/ Empty

\* a session driven through execute_command only
Spec == Init /\ [][Next]_vars

\* one call made by a script that drives an ApplicationState directly
Call(r, l) ==
    /\ running
    /\ ops < MaxOps
    /\ Commit(r, l)
    /\ ops' = ops + 1
    /\ prevStatus' = (last.op = "execute_command" /\ last.cmd = "status")
    /\ UNCHANGED runVars
    /\ UNCHANGED dispVars

Method(r) == WithRet(r, IF r.err = NoError THEN "None" ELSE "raise")

AddDiscovered ==
    \E name \in ApiNames, ty \in ApiTypes :
        Call(Method(add_discovered_target(app, name, ty)),
             Op("add_discovered_target", "", << name >>, ty, NoneV))

AddInfiltrated ==
    \E name \in ApiNames :
        Call(Method(add_infiltrated_target(app, name)),
             Op("add_infiltrated_target", "", << name >>, "", NoneV))

UpdateStatus ==
    \E key \in Keys, value \in Values :
        Call(Method(update_system_status(app, key, value)),
             Op("update_system_status", "", <<>>, key, value))

Reset == Call(Method(reset_state(app)), Op("reset_state", "", <<>>, "", NoneV))

\* execute_command(cmd, args, state) called by the script
Command ==
    \E cmd \in ScriptCmds, args \in ScriptArgLists :
        Call(execute_command(cmd, args, app, NoDraw),
             Op("execute_command", cmd, args, "", NoneV))

ApiNext ==
    \/ AddDiscovered
    \/ AddInfiltrated
    \/ UpdateStatus
    \/ Reset
    \/ Command

\* a script of at most MaxOps calls on a fresh ApplicationState()
ApiInit == Start("auto", "auto") /\ NoRun /\ NoDisplay

ApiSpec == ApiInit /\ [][ApiNext]_vars

(***************************************************************************)
(* The random module.  The generator is a state that each draw reads and   *)
(* advances; what a run draws is a function of the state seed() leaves and *)
(* of the number of draws made since.  random.seed() without an argument   *)
(* takes the state from the operating system: any state.                   *)
(***************************************************************************)
RngStates == 0..(RngMod - 1)
\* random.seed(n)
Seed(n) == n % RngMod
\* the state after one draw
Step(s) == (s + 1) % RngMod
\* random.choice over n options: the index drawn in state s
Choice(s, n) == (s % n) + 1
\* round(random.uniform(lo, hi), 4) in state s, in units of 10^-4 degree
Uniform(s, lo, hi) == lo + ((hi - lo) * s) \div (RngMod - 1)

\* the draws a handler makes when the generator is in state s: cmd_decrypt
\* draws pick; cmd_trace draws lat, lon and isp in this order
RngDraw(s) ==
    [pick |-> Choice(s, Len(DecryptMessages)),
     lat |-> Uniform(s, COORDINATE_LAT_MIN, COORDINATE_LAT_MAX),
     lon |-> Uniform(Step(s), COORDINATE_LON_MIN, COORDINATE_LON_MAX),
     isp |-> Choice(Step(Step(s)), Len(FallbackIsps))]

\* the state of the generator after the command c has run in state s
RngAfter(c, s) ==
    CASE c.cmd = "decrypt" -> Step(s)
      [] c.cmd = "trace" /\ ~NoTarget(FirstArg(c.args))
            /\ Upper(FirstArg(c.args)) \notin DOMAIN PREDEFINED_LOCATIONS ->
            Step(Step(Step(s)))
      [] OTHER -> s

(***************************************************************************)
(* A run of main(): demo script, interactive loop, single command, or the  *)
(* usage text when the command line names none of them.                    *)
(***************************************************************************)
RunModes == { "demo", "interactive", "single", "usage" }

\* the lines typed at the prompt, or given as the positional command, as
\* parse_command returns them
RunLines ==
    { CmdLine("help", <<>>), CmdLine("scan", <<>>), CmdLine("decrypt", <<>>),
      CmdLine("infiltrate", <<>>),
      CmdLine("infiltrate", << << "m", "a", "i", "n", "f", "r", "a", "m", "e", "-", "7" >> >>),
      CmdLine("infiltrate", << << "z", "z", "z", "z", "-", "9" >> >>),
      CmdLine("hack", <<>>),
      CmdLine("trace", <<>>),
      CmdLine("trace", << << "q", "u", "a", "n", "t", "u", "m", "-", "d", "b" >> >>),
      CmdLine("trace", << << "z", "z", "z", "z", "-", "9" >> >>),
      CmdLine("countertrace", <<>>), CmdLine("evade", <<>>), CmdLine("status", <<>>),
      CmdLine("clear", <<>>), CmdLine("exit", <<>>), CmdLine("foo", <<>>), NoLine }

\* demo_commands, parsed
DemoCommands ==
    << CmdLine("scan", <<>>), CmdLine("infiltrate", << MAINFRAME7 >>),
       CmdLine("hack", <<>>), CmdLine("trace", << QUANTUMDB >>),
       CmdLine("countertrace", <<>>), CmdLine("status", <<>>), CmdLine("exit", <<>>) >>

\* ascii_banner(state)
Banner == Event("ascii_banner", "", <<>>, NoneV, NoneV)
\* print(f"\n> {command_line}")
Echo(c) == Event("print", "> {command_line}", FirstArg(c.args), StrV(c.cmd), NoneV)

\* a rendering that asks the terminal where the cursor is and waits for the
\* reply whenever the mode is auto
ProbesTerminal_auto(umode) == umode = "auto"

\* should_use_unicode: whether deciding the character set runs
\* probe_unicode_width, which writes a query and waits for the reply
ProbesTerminal(umode) == FALSE

\* a single-command branch that leaves the generator as it finds it
SingleSeed_keeps(s) == s

\* main, single-command branch: random.seed(DEMO_RANDOM_SEED)
SingleSeed(s) == Seed(DEMO_RANDOM_SEED)

\* where control is after the banner was rendered
AfterBanner(p) == IF ProbesTerminal(unicode_mode) THEN "probe" ELSE p

\* a loop that takes the value False for the end of the session
LoopAfter_stopsOnFalse(r) == IF r = "False" THEN "done" ELSE "prompt"

\* interactive_mode: the value execute_command returns is not used, the loop
\* goes on to read the next line
LoopAfter(r) == "prompt"

\* the messages of the commands that tell the user the input was wrong
UserErrors ==
    { << Line(MsgTargetNotFound) >>, << Line(MsgInfiltrateUsage) >>,
      << Line(MsgTraceUsage) >>, << Line(MsgNotRecognized) >> }

\* a step of the run that prints o and changes no session data
Shown(o) == WithRet(Result(app, o, NoError), "None")
RunOp(name) == Op(name, "", <<>>, "", NoneV)

\* control moves to p; c is what began the termination, if this step does;
\* at "done" the process has exited with code, by the statement how; the
\* environment stays as it is during a run
Jump(p, c, code, how) ==
    /\ UNCHANGED dispVars
    /\ pc' = p
    /\ running' = (p # "done")
    /\ cause' = IF cause = "none" THEN c ELSE cause
    /\ exitCode' = IF p = "done" THEN code ELSE exitCode
    /\ via' = IF p = "done" THEN how ELSE via

\* cmd_exit is entered, from the try block where
EnterExit(where) ==
    /\ ctx' = where
    /\ exits' = exits + 1

\* execute_command(c.cmd, c.args, state) in a run: echo is printed before;
\* where is the try block of the call and p the place control goes afterwards.
\* The exit command enters cmd_exit; an Exception leaves the call towards the
\* handler of the enclosing try.
RunCommand(c, where, p, echo) ==
    LET r == execute_command(c.cmd, c.args, app, RngDraw(rng))
        l == Op("execute_command", c.cmd, c.args, "", NoneV)
    IN  /\ rng' = RngAfter(c, rng)
        /\ errSeen' = (errSeen \/ (where = "body" /\ r.out \in UserErrors))
        /\ UNCHANGED << mode, cmdline, interrupted, ops, prevStatus >>
        /\ CASE r.err = ErrSystemExit ->
                  /\ CommitData(Shown(echo), l)
                  /\ Jump("farewell", "exit", EXIT_SUCCESS, "none")
                  /\ EnterExit(where)
             [] r.err \notin {NoError, ErrSystemExit} /\ where = "body" ->
                  /\ CommitData([r EXCEPT !.out = echo \o @], l)
                  /\ Jump("farewell", "failure", EXIT_SUCCESS, "none")
                  /\ EnterExit("outer")
             [] r.err \notin {NoError, ErrSystemExit} /\ where # "body" ->
                  /\ CommitData([r EXCEPT !.out = echo \o @], l)
                  /\ Jump("done", "failure", EXIT_FAILURE, "main_error")
                  /\ UNCHANGED << ctx, exits >>
             [] OTHER ->
                  /\ CommitData([r EXCEPT !.out = echo \o @], l)
                  /\ Jump(p, "none", EXIT_SUCCESS, "return")
                  /\ UNCHANGED << ctx, exits >>

\* main with --script demo, up to the loop of run_demo_script
MainDemo ==
    /\ pc = "start" /\ mode = "demo"
    /\ rng' = Seed(DEMO_RANDOM_SEED)
    /\ CommitData(Shown(<< Banner >>), RunOp("run_demo_script"))
    /\ Jump(AfterBanner("demo"), "none", EXIT_SUCCESS, "return")
    /\ UNCHANGED << mode, cmdline, ctx, idx, exits, errSeen, interrupted, ops, prevStatus >>

\* main with --interactive, up to the call of interactive_mode
MainInteractive ==
    /\ pc = "start" /\ mode = "interactive"
    /\ rng' \in RngStates
    /\ CommitData(Shown(<<>>), RunOp("main"))
    /\ Jump("banner", "none", EXIT_SUCCESS, "return")
    /\ UNCHANGED << mode, cmdline, ctx, idx, exits, errSeen, interrupted, ops, prevStatus >>

\* main with a positional command, up to the call of execute_command, or up
\* to the call of interactive_mode when the command is empty
MainSingle ==
    /\ pc = "start" /\ mode = "single"
    /\ IF cmdline.cmd # NoCmd
       THEN /\ rng' = SingleSeed(rng)
            /\ CommitData(Shown(<< Banner >>), RunOp("main"))
            /\ Jump(AfterBanner("single"), "none", EXIT_SUCCESS, "return")
       ELSE /\ rng' \in RngStates
            /\ CommitData(Shown(<< Banner,
                                   Line("Empty command. Entering interactive mode...") >>),
                          RunOp("main"))
            /\ Jump(AfterBanner("banner"), "none", EXIT_SUCCESS, "return")
    /\ UNCHANGED << mode, cmdline, ctx, idx, exits, errSeen, interrupted, ops, prevStatus >>

\* main with no mode and no command: banner and usage, then main returns
MainUsage ==
    /\ pc = "start" /\ mode = "usage"
    /\ CommitData(Shown(<< Banner, Line("Use --help for options."), Line("Examples:") >>),
                  RunOp("main"))
    /\ Jump(AfterBanner("done"), "completed", EXIT_SUCCESS, "return")
    /\ UNCHANGED << mode, cmdline, ctx, idx, rng, exits, errSeen, interrupted, ops,
                    prevStatus >>

\* run_demo_script: one turn of the loop over demo_commands
DemoStep ==
    /\ pc = "demo"
    /\ idx <= Len(DemoCommands)
    /\ RunCommand(DemoCommands[idx], "main", "demo", << Echo(DemoCommands[idx]) >>)
    /\ idx' = idx + 1

\* main: the positional command is executed; when execute_command returns
\* True main returns, when it returns False the interactive mode follows
SingleStep ==
    /\ pc = "single"
    /\ LET r == execute_command(cmdline.cmd, cmdline.args, app, RngDraw(rng))
           l == Op("execute_command", cmdline.cmd, cmdline.args, "", NoneV)
       IN  CASE r.err = ErrSystemExit ->
                  /\ CommitData(Shown(<<>>), l)
                  /\ Jump("farewell", "exit", EXIT_SUCCESS, "none")
                  /\ EnterExit("main")
                  /\ rng' = rng
             [] r.err \notin {NoError, ErrSystemExit} ->
                  /\ CommitData(r, l)
                  /\ Jump("done", "failure", EXIT_FAILURE, "main_error")
                  /\ UNCHANGED << ctx, exits >>
                  /\ rng' = rng
             [] r.err = NoError /\ r.ret = "True" ->
                  /\ CommitData(r, l)
                  /\ Jump("done", "completed", EXIT_SUCCESS, "return")
                  /\ UNCHANGED << ctx, exits >>
                  /\ rng' = RngAfter(cmdline, rng)
             [] OTHER ->
                  /\ CommitData([r EXCEPT !.out = @ \o << Line("Entering interactive mode...") >>],
                                l)
                  /\ Jump("banner", "none", EXIT_SUCCESS, "return")
                  /\ UNCHANGED << ctx, exits >>
                  /\ rng' \in RngStates
    /\ UNCHANGED << mode, cmdline, idx, errSeen, interrupted, ops, prevStatus >>

\* interactive_mode: the banner, before the try
EnterLoop ==
    /\ pc = "banner"
    /\ CommitData(Shown(<< Banner >>), RunOp("interactive_mode"))
    /\ Jump(AfterBanner("prompt"), "none", EXIT_SUCCESS, "return")
    /\ UNCHANGED << mode, cmdline, ctx, idx, rng, exits, errSeen, interrupted, ops,
                    prevStatus >>

\* interactive_mode: one turn of the loop: a line is read and parsed, and
\* executed unless it is blank
LoopStep ==
    /\ pc = "prompt"
    /\ \E c \in RunLines :
         IF c.cmd = NoCmd
         THEN /\ CommitData(Shown(<<>>), RunOp("input"))
              /\ Jump("prompt", "none", EXIT_SUCCESS, "return")
              /\ UNCHANGED << mode, cmdline, ctx, rng, exits, errSeen, interrupted, ops,
                              prevStatus >>
         ELSE RunCommand(c, "body",
                         LoopAfter(execute_command(c.cmd, c.args, app, RngDraw(rng)).ret),
                         <<>>)
    /\ UNCHANGED idx

\* interactive_mode: input() raises EOFError
EndOfInput ==
    /\ pc = "prompt"
    /\ CommitData(Shown(<<>>), RunOp("input"))
    /\ Jump("handler", "eof", EXIT_SUCCESS, "none")
    /\ ctx' = "eof"
    /\ UNCHANGED << mode, cmdline, idx, rng, exits, errSeen, interrupted, ops, prevStatus >>

\* interactive_mode: the except clause of the inner try prints its message
\* and calls cmd_exit
Handler ==
    /\ pc = "handler"
    /\ CommitData(Shown(<< Line(IF ctx = "eof" THEN "End of input detected."
                                               ELSE "Interrupted by user.") >>),
                  RunOp("interactive_mode"))
    /\ Jump("farewell", "none", EXIT_SUCCESS, "none")
    /\ EnterExit("handler")
    /\ UNCHANGED << mode, cmdline, idx, rng, errSeen, interrupted, ops, prevStatus >>

\* cmd_exit runs to its end: the two lines, then sys.exit(EXIT_SUCCESS)
Farewell ==
    /\ pc = "farewell"
    /\ CommitData(WithRet(cmd_exit(app), "raise"), last)
    /\ Jump("done", "none", EXIT_SUCCESS, "cmd_exit")
    /\ UNCHANGED << mode, cmdline, ctx, idx, rng, exits, errSeen, interrupted, ops,
                    prevStatus >>

RunNext ==
    \/ MainDemo
    \/ MainInteractive
    \/ MainSingle
    \/ MainUsage
    \/ DemoStep
    \/ SingleStep
    \/ EnterLoop
    \/ LoopStep
    \/ EndOfInput
    \/ Handler
    \/ Farewell

RunInit ==
    \E m \in StartModes, md \in RunModes, s \in RngStates :
        /\ Start(m[1], m[2])
        /\ NoDisplay
        /\ \E line \in (IF md = "single" THEN RunLines ELSE { NoLine }) :
              StartRun(md, line, s)

\* the runs of main in which no signal arrives and no output fails
RunSpec == RunInit /\ [][RunNext]_vars

\* the runs that wait for nothing: the demo script, and a positional command
\* that is in the dispatch table
BatchInit ==
    /\ RunInit
    /\ mode = "demo" \/ (mode = "single" /\ cmdline.cmd \in DispatchTable)

BatchNext ==
    \/ MainDemo
    \/ MainSingle
    \/ DemoStep
    \/ SingleStep
    \/ Farewell

\* these runs read no input, so the process is always scheduled to go on
BatchSpec == BatchInit /\ [][BatchNext]_vars /\ WF_vars(BatchNext)

(***************************************************************************)
(* The environment: Ctrl-C (KeyboardInterrupt raised in the main thread    *)
(* wherever it is) and failing output or input (an Exception raised by     *)
(* print or input).                                                        *)
(***************************************************************************)
\* the states a handler can be interrupted in, with what it has printed by
\* then: before and after each of its assignments to the state
InterruptPoints(c, st) ==
    LET r == execute_command(c.cmd, c.args, st, NoDraw) IN
    CASE c.cmd = "scan" ->
            { [st |-> st, out |-> <<>>], [st |-> r.st, out |-> SubSeq(r.out, 1, 1)] }
      [] c.cmd = "infiltrate" /\ r.st # st ->
            { [st |-> st, out |-> SubSeq(r.out, 1, 2)],
              [st |-> r.st, out |-> SubSeq(r.out, 1, 3)] }
      [] c.cmd = "hack" ->
            { [st |-> st, out |-> SubSeq(r.out, 1, 2)],
              [st |-> [st EXCEPT !.system_status =
                          DictSet(@, "compromised_systems", IntV(DEMO_HACK_SYSTEMS))],
               out |-> SubSeq(r.out, 1, 3)],
              [st |-> r.st, out |-> SubSeq(r.out, 1, 3)] }
      [] OTHER -> { [st |-> st, out |-> <<>>] }

\* control is in main's try and in no try of interactive_mode that catches
\* what is raised: a KeyboardInterrupt passes the handlers of the inner try
\* when it is raised in one of them or in the outer handler
InMainOnly ==
    \/ pc \in {"start", "banner", "demo", "single", "handler"}
    \/ pc = "farewell" /\ ctx \in {"handler", "outer", "main"}

\* Ctrl-C caught by main: "Program interrupted.", sys.exit(EXIT_SUCCESS)
InterruptMain ==
    /\ InMainOnly
    /\ CommitData(Shown(<< Line("Program interrupted.") >>), RunOp("main"))
    /\ Jump("done", "interrupt", EXIT_SUCCESS, "main_interrupt")
    /\ interrupted' = TRUE
    /\ UNCHANGED << mode, cmdline, ctx, idx, rng, exits, errSeen, ops, prevStatus >>

\* Ctrl-C during a command of the demo script or the positional command
InterruptBatchCommand ==
    /\ \/ pc = "demo" /\ idx <= Len(DemoCommands)
       \/ pc = "single"
    /\ LET c == IF pc = "demo" THEN DemoCommands[idx] ELSE cmdline IN
       /\ c.cmd # "exit"
       /\ \E pt \in InterruptPoints(c, app) :
            CommitData(WithRet(Result(pt.st, pt.out \o << Line("Program interrupted.") >>,
                                      NoError), "raise"),
                       Op("execute_command", c.cmd, c.args, "", NoneV))
    /\ Jump("done", "interrupt", EXIT_SUCCESS, "main_interrupt")
    /\ interrupted' = TRUE
    /\ UNCHANGED << mode, cmdline, ctx, idx, rng, exits, errSeen, ops, prevStatus >>

\* Ctrl-C in the body of the inner try: while input() waits, or while
\* cmd_exit, called for the exit command, prints its lines
InterruptLoop ==
    /\ \/ pc = "prompt"
       \/ pc = "farewell" /\ ctx = "body"
    /\ CommitData(Shown(<<>>), RunOp("input"))
    /\ Jump("handler", "interrupt", EXIT_SUCCESS, "none")
    /\ ctx' = "interrupt"
    /\ interrupted' = TRUE
    /\ UNCHANGED << mode, cmdline, idx, rng, exits, errSeen, ops, prevStatus >>

\* Ctrl-C while a command typed at the prompt runs
InterruptCommand ==
    /\ pc = "prompt"
    /\ \E c \in RunLines :
         /\ c.cmd \notin {NoCmd, "exit"}
         /\ \E pt \in InterruptPoints(c, app) :
              CommitData(WithRet(Result(pt.st, pt.out, NoError), "raise"),
                         Op("execute_command", c.cmd, c.args, "", NoneV))
    /\ Jump("handler", "interrupt", EXIT_SUCCESS, "none")
    /\ ctx' = "interrupt"
    /\ interrupted' = TRUE
    /\ UNCHANGED << mode, cmdline, idx, rng, exits, errSeen, ops, prevStatus >>

\* an Exception raised inside the outer try of interactive_mode, by input or
\* by a print of a command, of a handler of the inner try or of cmd_exit:
\* "Unexpected error", then cmd_exit
FaultLoop ==
    /\ \/ pc \in {"prompt", "handler"}
       \/ pc = "farewell" /\ ctx \in {"body", "handler"}
    /\ CommitData(Shown(<< Line("Unexpected error: {e}") >>), RunOp("interactive_mode"))
    /\ Jump("farewell", "failure", EXIT_SUCCESS, "none")
    /\ EnterExit("outer")
    /\ UNCHANGED << mode, cmdline, idx, rng, errSeen, interrupted, ops, prevStatus >>

\* an Exception raised anywhere else in main's try: "Fatal error",
\* sys.exit(EXIT_FAILURE)
FaultMain ==
    /\ \/ pc \in {"start", "banner", "demo", "single"}
       \/ pc = "farewell" /\ ctx \in {"outer", "main"}
    /\ CommitData(Shown(<< Line("Fatal error: {e}") >>), RunOp("main"))
    /\ Jump("done", "failure", EXIT_FAILURE, "main_error")
    /\ UNCHANGED << mode, cmdline, ctx, idx, rng, exits, errSeen, interrupted, ops,
                    prevStatus >>

SignalNext ==
    \/ RunNext
    \/ InterruptMain
    \/ InterruptBatchCommand
    \/ InterruptLoop
    \/ InterruptCommand

\* the runs of main with signals, and no failure
SignalSpec == RunInit /\ [][SignalNext]_vars

EnvNext ==
    \/ RunNext
    \/ InterruptMain
    \/ InterruptBatchCommand
    \/ InterruptLoop
    \/ InterruptCommand
    \/ FaultLoop
    \/ FaultMain

\* the runs of main with signals and failures
EnvSpec == RunInit /\ [][EnvNext]_vars

(***************************************************************************)
(* The display functions.  A call of one of them is recorded in call: its  *)
(* name, its argument, the value it returns and the exception it raises.   *)
(***************************************************************************)
\* the variables of the session and of its history
sessionVars ==
    << unicode_mode, width_mode, discovered_targets, infiltrated_targets,
       system_status, running, out, err, ret, last, everDiscovered, cnt, ops,
       prevStatus >>

Called(fn, arg, val, e) == [fn |-> fn, arg |-> arg, val |-> val, err |-> e]

\* a classification whose first test is strict
classify_width_strict(width) ==
    IF width < DISPLAY_WIDTH_COMPACT_THRESHOLD THEN "compact"
    ELSE IF width <= DISPLAY_WIDTH_STANDARD_THRESHOLD THEN "standard"
    ELSE "wide"

classify_width(width) ==
    IF width <= DISPLAY_WIDTH_COMPACT_THRESHOLD THEN "compact"
    ELSE IF width <= DISPLAY_WIDTH_STANDARD_THRESHOLD THEN "standard"
    ELSE "wide"

\* the widths classify_width is called with
Widths == (0 - BelowZero)..MaxWidth

\* classify_width(w)
Classify ==
    /\ \E w \in Widths : call' = Called("classify_width", w, classify_width(w), NoError)
    /\ UNCHANGED << sessionVars, runVars, env >>

ClassifyInit == Start("auto", "auto") /\ NoRun /\ NoDisplay

ClassifyNext ==
    \/ Classify

\* calls of classify_width
ClassifySpec == ClassifyInit /\ [][ClassifyNext]_vars

(***************************************************************************)
(* Terminal width.  The environment holds what shutil.get_terminal_size    *)
(* does (os: a size, or OSError/AttributeError), whether stdout is a       *)
(* terminal, and the variables COLUMNS and TERM_COLS.  The value of an     *)
(* environment variable is absent, or a string of one of these kinds:      *)
(* empty; text (isdigit() is False); decimal (ASCII digits, int() gives    *)
(* n); digitlike (isdigit() is True and int() raises ValueError, as for    *)
(* a superscript two).                                                     *)
(***************************************************************************)
ErrValueError == "ValueError"
EnvStr(k, n) == [k |-> k, n |-> n]
Absent == EnvStr("absent", 0)
\* the values given to COLUMNS and TERM_COLS
WidthStrings ==
    { Absent, EnvStr("empty", 0), EnvStr("text", 0), EnvStr("decimal", 0),
      EnvStr("decimal", 40), EnvStr("decimal", 120), EnvStr("digitlike", 0) }
\* the outcomes of shutil.get_terminal_size()
OsResults ==
    { EnvStr("oserror", 0), EnvStr("size", 0), EnvStr("size", 62), EnvStr("size", 63),
      EnvStr("size", 100) }

\* s.isdigit()
IsDigit(v) == v.k \in {"decimal", "digitlike"}

Ret(v) == [val |-> v, err |-> NoError]
Raise(e, v) == [val |-> v, err |-> e]

\* one fallback of get_terminal_width: the variable v is used when it is set,
\* non-empty, all digits and, converted by int(), positive; otherwise the
\* rest of the chain decides
EnvFallback(v, rest) ==
    IF v.k \notin {"absent", "empty"} /\ IsDigit(v)
    THEN IF v.k = "digitlike" THEN Raise(ErrValueError, 0)
         ELSE IF v.n > 0 THEN Ret(v.n) ELSE rest
    ELSE rest

get_terminal_width(e) ==
    IF e.os.k = "size" /\ e.os.n > 0
    THEN Ret(e.os.n)
    ELSE EnvFallback(e.COLUMNS,
                     EnvFallback(e.TERM_COLS, Ret(DISPLAY_DEFAULT_TERMINAL_WIDTH)))

\* a tier that is taken from the width whether or not stdout is a terminal
get_terminal_width_tier_anyStream(e) ==
    LET w == get_terminal_width(e) IN
    IF w.err # NoError THEN Raise(w.err, "") ELSE Ret(classify_width(w.val))

get_terminal_width_tier(e) ==
    IF ~e.isatty
    THEN Ret("standard")
    ELSE LET w == get_terminal_width(e) IN
         IF w.err # NoError THEN Raise(w.err, "") ELSE Ret(classify_width(w.val))

get_width_mode(st, e) ==
    IF st.width_mode \in {"compact", "standard", "wide"}
    THEN Ret(st.width_mode)
    ELSE IF st.width_mode = "auto"
    THEN get_terminal_width_tier(e)
    ELSE Ret("standard")

\* get_terminal_width()
GetWidth ==
    /\ call' = [fn |-> "get_terminal_width", arg |-> env,
                val |-> get_terminal_width(env).val, err |-> get_terminal_width(env).err]
    /\ UNCHANGED << sessionVars, runVars, env >>

\* a render: get_width_mode(state); prev is the tier of the render before
Render ==
    /\ call' = [fn |-> "get_width_mode", arg |-> env,
                val |-> get_width_mode(app, env).val, err |-> get_width_mode(app, env).err,
                prev |-> IF call.fn = "get_width_mode" THEN call.val ELSE "none"]
    /\ UNCHANGED << sessionVars, runVars, env >>

\* the terminal is resized
Resize ==
    /\ \E o \in OsResults : o # env.os /\ env' = [env EXCEPT !.os = o]
    /\ UNCHANGED << sessionVars, runVars, call >>

WidthModes == { "auto", "compact", "standard", "wide" }

WidthInit ==
    /\ \E wm \in WidthModes : Start("auto", wm)
    /\ NoRun
    /\ call = NoCall
    /\ \E o \in OsResults, c \in WidthStrings, t \in WidthStrings, tty \in BOOLEAN :
          env = [kind |-> "width", os |-> o, COLUMNS |-> c, TERM_COLS |-> t, isatty |-> tty]

WidthNext ==
    \/ GetWidth
    \/ Render
    \/ Resize

\* width detection and tier resolution in a terminal that may be resized
WidthSpec == WidthInit /\ [][WidthNext]_vars

(***************************************************************************)
(* Unicode detection.  The environment holds LC_ALL, LC_CTYPE, LANG and    *)
(* TERM as character strings; an unset variable reads as the empty string  *)
(* (os.environ.get(var, "")).                                              *)
(***************************************************************************)
\* the lower-case form of each upper-case letter
LowerOf ==
    [c \in {UpperLetters[i] : i \in 1..26} |->
        LowerLetters[CHOOSE i \in 1..26 : UpperLetters[i] = c]]
LowerChar(c) == IF c \in DOMAIN LowerOf THEN LowerOf[c] ELSE c
\* str.lower()
Lower(str) == [i \in 1..Len(str) |-> LowerChar(str[i])]
\* sub in str
Contains(str, sub) ==
    \E i \in 1..(Len(str) - Len(sub) + 1) : SubSeq(str, i, i + Len(sub) - 1) = sub
\* str.startswith(prefix)
StartsWith(str, prefix) ==
    Len(str) >= Len(prefix) /\ SubSeq(str, 1, Len(prefix)) = prefix

Xterm256 == << "x", "t", "e", "r", "m", "-", "2", "5", "6", "c", "o", "l", "o", "r" >>
Screen256 == << "s", "c", "r", "e", "e", "n", "-", "2", "5", "6", "c", "o", "l", "o", "r" >>
Tmux256 == << "t", "m", "u", "x", "-", "2", "5", "6", "c", "o", "l", "o", "r" >>
\* unicode_terms
UnicodeTerms == { Xterm256, Screen256, Tmux256 }

\* a check that reads LANG only
utf8_env_check_langOnly(e) ==
    \/ Contains(Upper(e.LANG), << "U", "T", "F", "-", "8" >>)
    \/ Contains(Lower(e.LANG), << "u", "t", "f", "8" >>)

utf8_env_check(e) ==
    \E val \in { e.LC_ALL, e.LC_CTYPE, e.LANG } :
        \/ Contains(Upper(val), << "U", "T", "F", "-", "8" >>)
        \/ Contains(Lower(val), << "u", "t", "f", "8" >>)

terminal_hints_unicode(e) == \E t \in UnicodeTerms : StartsWith(Lower(e.TERM), t)

should_use_unicode(st, e) ==
    CASE st.unicode_mode = "off" -> FALSE
      [] st.unicode_mode = "on" -> TRUE
      [] st.unicode_mode = "auto" -> utf8_env_check(e) /\ terminal_hints_unicode(e)
      [] OTHER -> FALSE

\* values of the locale variables and of TERM
LocaleUtf8 == << "e", "n", ".", "U", "T", "F", "-", "8" >>
LocaleUtf8Lower == << "C", ".", "u", "t", "f", "8" >>
LocaleUtf8Mixed == << "U", "t", "f", "-", "8" >>
LocaleUtf8Upper == << "f", "r", ".", "U", "T", "F", "8" >>
LocaleUtf16 == << "u", "t", "f", "-", "1", "6" >>
LocaleStrings ==
    { <<>>, << "C" >>, LocaleUtf8, LocaleUtf8Lower, LocaleUtf8Mixed, LocaleUtf8Upper,
      LocaleUtf16 }
FewLocaleStrings == { <<>>, << "C" >>, LocaleUtf8Lower }
TermStrings ==
    { <<>>, Xterm256, Upper(Xterm256), Screen256 \o << "-", "b", "c", "e" >>, Tmux256,
      << "x", "t", "e", "r", "m" >>, << "v", "t", "1", "0", "0" >>,
      << "m", "y", "-" >> \o Xterm256 }

\* should_use_unicode(state); probed tells whether the call ran
\* probe_unicode_width
UseUnicode ==
    /\ call' = [fn |-> "should_use_unicode", arg |-> env,
                val |-> should_use_unicode(app, env), err |-> NoError,
                probed |-> ProbesTerminal(unicode_mode)]
    /\ UNCHANGED << sessionVars, runVars, env >>

\* the environment is changed (os.environ is writable)
SetTerm ==
    /\ \E t \in TermStrings : t # env.TERM /\ env' = [env EXCEPT !.TERM = t]
    /\ UNCHANGED << sessionVars, runVars, call >>

UnicodeInit ==
    /\ \E um \in { "off", "on", "auto" } : Start(um, "auto")
    /\ NoRun
    /\ call = NoCall
    /\ \E a \in FewLocaleStrings, c \in FewLocaleStrings, l \in LocaleStrings,
          t \in TermStrings :
          env = [kind |-> "unicode", LC_ALL |-> a, LC_CTYPE |-> c, LANG |-> l, TERM |-> t]

UnicodeNext ==
    \/ UseUnicode
    \/ SetTerm

\* the choice of the character set in the environments a process can have
UnicodeSpec == UnicodeInit /\ [][UnicodeNext]_vars

(***************************************************************************)
(* The progress bar.  The percentage of a frame is int((i / steps) * 100)  *)
(* in IEEE-754 double precision: i / steps is rounded to 53 significant    *)
(* bits, the product with 100 is rounded again, and int() drops the        *)
(* fraction.  A double is [exp, man] with man a sequence of 53 bits, the   *)
(* first of them 1, and value man * 2^(exp - 52); Zero is the double 0.0.  *)
(***************************************************************************)
ProgressMax == 50
MantissaBits == 53
PROGRESS_DOT_CYCLE_MODULO == 3
STEP_INCREMENT == 1
ErrZeroDivision == "ZeroDivisionError"

Zeros(n) == [j \in 1..n |-> 0]
Zero == [exp |-> 0, man |-> <<>>]

RECURSIVE BitsToNat(_)
BitsToNat(b) ==
    IF b = <<>> THEN 0 ELSE 2 * BitsToNat(SubSeq(b, 1, Len(b) - 1)) + b[Len(b)]

\* b + 1, one bit longer than b: a digit changes when all digits after it are 1
Inc(b) ==
    LET flips(j) == \A m \in (j + 1)..Len(b) : b[m] = 1
    IN << IF flips(0) THEN 1 ELSE 0 >> \o
           [j \in 1..Len(b) |-> IF flips(j) THEN 1 - b[j] ELSE b[j]]

\* a + b for bit sequences of one length, one bit longer than a: a carry
\* enters digit j when a later digit makes one and the digits between pass it
Add(a, b) ==
    LET n == Len(a)
        carry(j) ==
            \E k \in (j + 1)..n :
                /\ a[k] + b[k] = 2
                /\ \A m \in (j + 1)..(k - 1) : a[m] + b[m] = 1
    IN << IF carry(0) THEN 1 ELSE 0 >> \o
           [j \in 1..n |-> (a[j] + b[j] + (IF carry(j) THEN 1 ELSE 0)) % 2]

StripZeros(b) ==
    IF \A j \in 1..Len(b) : b[j] = 0 THEN <<>>
    ELSE LET first == CHOOSE j \in 1..Len(b) : b[j] = 1 /\ \A m \in 1..(j - 1) : b[m] = 0
         IN SubSeq(b, first, Len(b))

RECURSIVE Pow2(_)
Pow2(n) == IF n = 0 THEN 1 ELSE 2 * Pow2(n - 1)

\* long division, nine binary digits at a time: what is left of r after c
\* chunks of r / s
Chunk == Pow2(9)
RECURSIVE RemainderAfter(_, _, _)
RemainderAfter(r, s, c) == IF c = 0 THEN r ELSE (Chunk * RemainderAfter(r, s, c - 1)) % s

\* the first n binary digits of r / s (r < s, n a multiple of nine) and what
\* is left of r
Expansion(r, s, n) ==
    [bits |-> [j \in 1..n |->
                  LET digits == (Chunk * RemainderAfter(r, s, (j - 1) \div 9)) \div s
                  IN (digits \div Pow2(8 - ((j - 1) % 9))) % 2],
     rem |-> RemainderAfter(r, s, n \div 9)]

\* the number of zero digits that r / s begins with
RECURSIVE LeadingZeros(_, _)
LeadingZeros(r, s) == IF 2 * r >= s THEN 0 ELSE 1 + LeadingZeros(2 * r, s)

\* round to nearest, ties to even: bits starts with 1 and has more than 53
\* digits, sticky tells that digits after them are not all 0, exp is the
\* exponent of the first digit
RoundNearestEven(bits, sticky, exp) ==
    LET keep == SubSeq(bits, 1, MantissaBits)
        half == bits[MantissaBits + 1] = 1
        more == sticky \/ \E j \in (MantissaBits + 2)..Len(bits) : bits[j] = 1
        up == half /\ (more \/ keep[MantissaBits] = 1)
        next == Inc(keep)
    IN IF ~up THEN [exp |-> exp, man |-> keep]
       ELSE IF next[1] = 1 THEN [exp |-> exp + 1, man |-> SubSeq(next, 1, MantissaBits)]
       ELSE [exp |-> exp, man |-> Tail(next)]

\* i / steps for 0 <= i <= steps, steps > 0
FloatDiv(i, steps) ==
    IF i = 0 THEN Zero
    ELSE IF i = steps THEN [exp |-> 0, man |-> << 1 >> \o Zeros(MantissaBits - 1)]
    ELSE LET z == LeadingZeros(i, steps)
             e == Expansion(i * Pow2(z), steps, MantissaBits + 1)
         IN RoundNearestEven(e.bits, e.rem # 0, 0 - (z + 1))

\* x * 100, with 100 = 64 + 32 + 4
FloatMul100(x) ==
    IF x = Zero THEN Zero
    ELSE LET a == << 0 >> \o x.man \o Zeros(6)
             b == << 0, 0 >> \o x.man \o Zeros(5)
             c == << 0 >> \o Zeros(5) \o x.man \o Zeros(2)
             p == StripZeros(Add(Add(a, b), c))
         IN RoundNearestEven(p, FALSE, x.exp + Len(p) - MantissaBits)

\* int(x) for x >= 0
Trunc(x) ==
    IF x = Zero \/ x.exp < 0 THEN 0 ELSE BitsToNat(SubSeq(x.man, 1, x.exp + 1))

\* int((i / steps) * 100)
Percent(i, steps) == Trunc(FloatMul100(FloatDiv(i, steps)))

\* get_progress_chars(state)
get_progress_chars(st, e) == IF should_use_unicode(st, e) THEN "blocks" ELSE "ascii"

\* the number of dots after the percentage
Dots(i) ==
    IF i % PROGRESS_DOT_CYCLE_MODULO = 0 THEN 3
    ELSE IF i % PROGRESS_DOT_CYCLE_MODULO = 1 THEN 2 ELSE 1

\* one line of the bar
Frame(i, steps, chars) ==
    [kind |-> "frame", i |-> i, chars |-> chars, filled |-> i, empty |-> steps - i,
     percent |-> Percent(i, steps), dots |-> Dots(i)]
LabelLine(label) == [kind |-> "label", text |-> Upper(label)]
BorderLine == [kind |-> "border"]

ProgressLabels == { << "S", "c", "a", "n" >> }
ProgressSteps == (0 - 1)..ProgressMax

\* progress(label, steps, delay, state) up to the loop: the label, the top
\* border and the choice of the glyphs
ProgressBegin ==
    /\ call.fn = "none" \/ (call.fn = "progress" /\ call.pc # "loop")
    /\ \E label \in ProgressLabels, steps \in ProgressSteps :
          call' = [fn |-> "progress", label |-> label, steps |-> steps, pc |-> "loop",
                   i |-> 0, chars |-> get_progress_chars(app, env),
                   lines |-> << LabelLine(label), BorderLine >>, err |-> NoError]
    /\ UNCHANGED << sessionVars, runVars, env >>

\* one turn of the loop over range(steps + STEP_INCREMENT); the division
\* raises ZeroDivisionError when steps is 0
ProgressFrame ==
    /\ call.fn = "progress" /\ call.pc = "loop"
    /\ call.i < call.steps + STEP_INCREMENT
    /\ IF call.steps = 0
         THEN call' = [call EXCEPT !.pc = "raised", !.err = ErrZeroDivision]
         ELSE call' = [call EXCEPT
                          !.lines = Append(@, Frame(call.i, call.steps, call.chars)),
                          !.i = @ + 1]
    /\ UNCHANGED << sessionVars, runVars, env >>

\* after the loop: the closing border
ProgressEnd ==
    /\ call.fn = "progress" /\ call.pc = "loop"
    /\ call.i >= call.steps + STEP_INCREMENT
    /\ call' = [call EXCEPT !.lines = Append(@, BorderLine), !.pc = "done"]
    /\ UNCHANGED << sessionVars, runVars, env >>

ProgressInit ==
    /\ \E um \in { "off", "on", "auto" } : Start(um, "auto")
    /\ NoRun
    /\ call = NoCall
    /\ env = [kind |-> "unicode", LC_ALL |-> <<>>, LC_CTYPE |-> <<>>,
              LANG |-> LocaleUtf8, TERM |-> Xterm256]

ProgressNext ==
    \/ ProgressBegin
    \/ ProgressFrame
    \/ ProgressEnd

\* progress bars of every length up to ProgressMax
ProgressSpec == ProgressInit /\ [][ProgressNext]_vars

(***************************************************************************)
(* The strict terminal probe, one action for each operating system call.   *)
(* env holds the platform and the input mode of the terminal, call the     *)
(* position in probe_unicode_width, the saved attributes (old_attrs, NoAttrs *)
(* while the name is unbound), the pending exception and the result.       *)
(***************************************************************************)
ErrOSError == "OSError"
ErrTermios == "termios.error"
ErrKeyboardInterrupt == "KeyboardInterrupt"
ErrUnboundLocal == "UnboundLocalError"
NoAttrs == "unbound"

\* except (OSError, ValueError, KeyboardInterrupt); termios.error derives
\* from Exception only
ProbeCatches(e) == e \in { ErrOSError, ErrValueError, ErrKeyboardInterrupt }
\* except (OSError, ValueError) of the finally block
RestoreCatches(e) == e \in { ErrOSError, ErrValueError }

\* HAS_UNIX_TTY: termios and tty could be imported
HAS_UNIX_TTY(e) == e.platform = "posix"

\* an exception raised in the try block: return False when the except clause
\* names it, else it stays pending while the finally block runs
RaisedInTry(c, e) ==
    IF ProbeCatches(e)
      THEN [c EXCEPT !.pc = "finally", !.val = FALSE, !.fault = @ \/ e # ErrKeyboardInterrupt]
      ELSE [c EXCEPT !.pc = "finally", !.exc = e, !.fault = TRUE]

\* the end of the finally block: the pending exception goes on, else the
\* function returns
Leave(c) == [c EXCEPT !.pc = IF c.exc = NoError THEN "returned" ELSE "raised",
                      !.err = c.exc]

\* the three early returns
ProbeBegin ==
    /\ call.fn = "none"
    /\ IF \/ ~env.stdout_tty
          \/ ~HAS_UNIX_TTY(env)
          \/ env.platform = "nt" /\ env.TERM # Xterm256
         THEN call' = [fn |-> "probe", pc |-> "returned", val |-> FALSE, exc |-> NoError,
                       err |-> NoError, old |-> NoAttrs, changed |-> FALSE, fault |-> FALSE]
         ELSE call' = [fn |-> "probe", pc |-> "tcgetattr", val |-> FALSE, exc |-> NoError,
                       err |-> NoError, old |-> NoAttrs, changed |-> FALSE, fault |-> FALSE]
    /\ UNCHANGED << sessionVars, runVars, env >>

\* old_attrs = termios.tcgetattr(sys.stdin): termios.error when standard
\* input is no terminal
ProbeSave ==
    /\ call.fn = "probe" /\ call.pc = "tcgetattr"
    /\ call' = IF env.stdin_tty
                 THEN [call EXCEPT !.pc = "setraw", !.old = env.mode]
                 ELSE RaisedInTry(call, ErrTermios)
    /\ UNCHANGED << sessionVars, runVars, env >>

\* tty.setraw(sys.stdin)
ProbeRaw ==
    /\ call.fn = "probe" /\ call.pc = "setraw"
    /\ \/ /\ env' = [env EXCEPT !.mode = "raw"]
          /\ call' = [call EXCEPT !.pc = "write", !.changed = TRUE]
       \/ /\ call' = RaisedInTry(call, ErrTermios)
          /\ env' = env
    /\ UNCHANGED << sessionVars, runVars >>

\* the writes of the cursor save, the test character and the position query
ProbeWrite ==
    /\ call.fn = "probe" /\ call.pc = "write"
    /\ \/ call' = [call EXCEPT !.pc = "select"]
       \/ \E e \in { ErrOSError, ErrValueError } : call' = RaisedInTry(call, e)
    /\ UNCHANGED << sessionVars, runVars, env >>

\* select.select with UNICODE_PROBE_TIMEOUT: input is ready, or the time runs out
ProbeSelect ==
    /\ call.fn = "probe" /\ call.pc = "select"
    /\ \/ call' = [call EXCEPT !.pc = "read"]
       \/ call' = [call EXCEPT !.pc = "finally", !.val = FALSE]
       \/ call' = RaisedInTry(call, ErrOSError)
    /\ UNCHANGED << sessionVars, runVars, env >>

\* the loop that reads the reply: result = 'R' in response
ProbeRead ==
    /\ call.fn = "probe" /\ call.pc = "read"
    /\ \/ \E gotR \in BOOLEAN : call' = [call EXCEPT !.pc = "finally", !.val = gotR]
       \/ call' = RaisedInTry(call, ErrOSError)
    /\ UNCHANGED << sessionVars, runVars, env >>

\* Ctrl-C while the try block runs
ProbeInterrupt ==
    /\ call.fn = "probe" /\ call.pc \in { "tcgetattr", "setraw", "write", "select", "read" }
    /\ call' = RaisedInTry(call, ErrKeyboardInterrupt)
    /\ UNCHANGED << sessionVars, runVars, env >>

\* the finally block: the cursor restore is written, then tcsetattr puts
\* old_attrs back; an exception of the block skips the rest of it and is
\* dropped only when its except clause names it
ProbeRestore ==
    /\ call.fn = "probe" /\ call.pc = "finally"
    /\ \/ \E e \in { ErrOSError, ErrValueError } :
             /\ RestoreCatches(e)
             /\ call' = Leave([call EXCEPT !.fault = TRUE])
             /\ env' = env
       \/ /\ call.old = NoAttrs
          /\ call' = Leave([call EXCEPT !.exc = ErrUnboundLocal])
          /\ env' = env
       \/ /\ call.old # NoAttrs
          /\ \/ /\ env' = [env EXCEPT !.mode = call.old]
                /\ call' = Leave(call)
             \/ /\ env' = env
                /\ call' = Leave([call EXCEPT !.exc = ErrTermios, !.fault = TRUE])
    /\ UNCHANGED << sessionVars, runVars >>

Platforms == { "posix", "nt", "other" }

ProbeInit ==
    /\ \E um \in { "off", "on", "auto" } : Start(um, "auto")
    /\ NoRun
    /\ call = NoCall
    /\ \E p \in Platforms, o \in BOOLEAN, i \in BOOLEAN, t \in { <<>>, Xterm256 } :
          env = [kind |-> "tty", platform |-> p, stdout_tty |-> o, stdin_tty |-> i,
                 TERM |-> t, mode |-> "cooked"]

ProbeNext ==
    \/ ProbeBegin
    \/ ProbeSave
    \/ ProbeRaw
    \/ ProbeWrite
    \/ ProbeSelect
    \/ ProbeRead
    \/ ProbeInterrupt
    \/ ProbeRestore

\* one call of probe_unicode_width with every outcome of its system calls
ProbeSpec == ProbeInit /\ [][ProbeNext]_vars

(***************************************************************************)
(* The command parser.  A line is a string of characters; env holds the    *)
(* line that was read.                                                     *)
(***************************************************************************)
MaxLine == 6

\* str.strip()
Strip(str) ==
    LET solid == { j \in 1..Len(str) : str[j] \notin Whitespace }
    IN IF solid = {} THEN <<>>
       ELSE SubSeq(str, CHOOSE j \in solid : \A k \in solid : j <= k,
                        CHOOSE j \in solid : \A k \in solid : j >= k)

\* str.split(): the runs of characters between whitespace
RECURSIVE Split(_)
Split(str) ==
    IF str = <<>> THEN <<>>
    ELSE IF str[1] \in Whitespace THEN Split(Tail(str))
    ELSE LET ends == { j \in 1..Len(str) : j = Len(str) \/ str[j + 1] \in Whitespace }
             end == CHOOSE j \in ends : \A k \in ends : j <= k
         IN << SubSeq(str, 1, end) >> \o Split(SubSeq(str, end + 1, Len(str)))

\* a parser that lower-cases every token
parse_command_lowerAll(command_line) ==
    LET parts == Split(Strip(command_line))
    IN IF parts = <<>> THEN CmdLine(None, <<>>)
       ELSE CmdLine(Lower(parts[1]), [j \in 1..(Len(parts) - 1) |-> Lower(parts[j + 1])])

parse_command(command_line) ==
    LET parts == Split(Strip(command_line))
    IN IF parts = <<>> THEN CmdLine(None, <<>>)
       ELSE CmdLine(Lower(parts[1]), Tail(parts))

\* the characters of the lines: a letter in each case, a blank and a tab
LineChars == { "S", "c", " ", "\t" }
RECURSIVE LinesOfLength(_)
LinesOfLength(n) ==
    IF n = 0 THEN { <<>> }
    ELSE { << c >> \o l : c \in LineChars, l \in LinesOfLength(n - 1) }
Lines == UNION { LinesOfLength(n) : n \in 0..MaxLine }

\* parse_command(command_line)
Parse ==
    /\ call = NoCall
    /\ call' = Called("parse_command", env.line, parse_command(env.line), NoError)
    /\ UNCHANGED << sessionVars, runVars, env >>

ParseInit ==
    /\ Start("auto", "auto")
    /\ NoRun
    /\ call = NoCall
    /\ \E line \in Lines : env = [kind |-> "line", line |-> line]

ParseNext ==
    \/ Parse

\* the parser on every line of at most MaxLine characters
ParseSpec == ParseInit /\ [][ParseNext]_vars

(***************************************************************************)
(* The choice of the banner and of the two boxes.  An asset is named by    *)
(* the constant that holds its text.                                       *)
(***************************************************************************)
get_banner(st, e) ==
    LET width_tier == get_width_mode(st, e) IN
    IF width_tier.err # NoError THEN Raise(width_tier.err, "")
    ELSE IF should_use_unicode(st, e)
    THEN IF width_tier.val = "compact" THEN Ret("COMPACT_UNICODE_BANNER")
         ELSE IF width_tier.val = "wide" THEN Ret("WIDE_UNICODE_BANNER")
         ELSE Ret("STANDARD_UNICODE_BANNER")
    ELSE IF width_tier.val = "compact" THEN Ret("COMPACT_ASCII_BANNER")
         ELSE IF width_tier.val = "wide" THEN Ret("WIDE_ASCII_BANNER")
         ELSE Ret("STANDARD_ASCII_BANNER")

get_access_granted(st, e) ==
    LET width_tier == get_width_mode(st, e) IN
    IF width_tier.err # NoError THEN Raise(width_tier.err, "")
    ELSE IF should_use_unicode(st, e)
    THEN IF width_tier.val = "compact" THEN Ret("COMPACT_UNICODE_ACCESS_GRANTED")
         ELSE IF width_tier.val = "wide" THEN Ret("WIDE_UNICODE_ACCESS_GRANTED")
         ELSE Ret("STANDARD_UNICODE_ACCESS_GRANTED")
    ELSE IF width_tier.val = "compact" THEN Ret("COMPACT_ACCESS_GRANTED")
         ELSE IF width_tier.val = "wide" THEN Ret("WIDE_ACCESS_GRANTED")
         ELSE Ret("STANDARD_ACCESS_GRANTED")

\* a warning box that comes in one width only
get_warning_box_oneWidth(st, e) ==
    LET width_tier == get_width_mode(st, e) IN
    IF width_tier.err # NoError THEN Raise(width_tier.err, "")
    ELSE IF should_use_unicode(st, e) THEN Ret("STANDARD_UNICODE_WARNING_BOX")
    ELSE Ret("STANDARD_WARNING_BOX")

get_warning_box(st, e) ==
    LET width_tier == get_width_mode(st, e) IN
    IF width_tier.err # NoError THEN Raise(width_tier.err, "")
    ELSE IF should_use_unicode(st, e)
    THEN IF width_tier.val = "compact" THEN Ret("COMPACT_UNICODE_WARNING_BOX")
         ELSE IF width_tier.val = "wide" THEN Ret("WIDE_UNICODE_WARNING_BOX")
         ELSE Ret("STANDARD_UNICODE_WARNING_BOX")
    ELSE IF width_tier.val = "compact" THEN Ret("COMPACT_WARNING_BOX")
         ELSE IF width_tier.val = "wide" THEN Ret("WIDE_WARNING_BOX")
         ELSE Ret("STANDARD_WARNING_BOX")

AssetKinds == { "get_banner", "get_access_granted", "get_warning_box" }
GetAsset(kind, st, e) ==
    CASE kind = "get_banner" -> get_banner(st, e)
      [] kind = "get_access_granted" -> get_access_granted(st, e)
      [] OTHER -> get_warning_box(st, e)

\* one of the three getters is called, as show_banner, show_access_granted
\* and show_warning do
SelectAsset ==
    /\ \E kind \in AssetKinds :
          call' = [fn |-> kind, arg |-> env, val |-> GetAsset(kind, app, env).val,
                   err |-> GetAsset(kind, app, env).err]
    /\ UNCHANGED << sessionVars, runVars, env >>

AssetInit ==
    /\ \E um \in { "off", "on", "auto" }, wm \in WidthModes : Start(um, wm)
    /\ NoRun
    /\ call = NoCall
    /\ \E o \in { EnvStr("oserror", 0), EnvStr("size", 62), EnvStr("size", 100) },
          c \in { Absent, EnvStr("decimal", 120), EnvStr("digitlike", 0) },
          tty \in BOOLEAN, l \in { << "C" >>, LocaleUtf8 }, t \in { Xterm256, <<>> } :
          env = [kind |-> "display", os |-> o, COLUMNS |-> c, TERM_COLS |-> Absent,
                 isatty |-> tty, LC_ALL |-> <<>>, LC_CTYPE |-> <<>>, LANG |-> l, TERM |-> t]

AssetNext ==
    \/ SelectAsset
    \/ Resize

\* the three getters in every display mode and environment
AssetSpec == AssetInit /\ [][AssetNext]_vars

(***************************************************************************)
(* cmd_infiltrate statement by statement.  call holds the place in the     *)
(* body (pc, the number of the next statement), the name looked up, the    *)
(* set of infiltrated targets found at the start and whether the insertion *)
(* was made; out collects what has been shown so far.                      *)
(***************************************************************************)
\* the body with the insertion moved to the front
InfiltrateBody_addFirst(name) ==
    << [do |-> "add"],
       [do |-> "show", ev |-> ShowWarning],
       [do |-> "show", ev |-> LineName("Infiltrating {target}...", name)],
       [do |-> "show", ev |-> Progress("Bypassing security", PROGRESS_BAR_STEPS_INFILTRATE)],
       [do |-> "show", ev |-> ShowAccessGranted],
       [do |-> "show", ev |-> Line(MsgRootObtained)] >>

\* the statements after the two checks
InfiltrateBody(name) ==
    << [do |-> "show", ev |-> ShowWarning],
       [do |-> "show", ev |-> LineName("Infiltrating {target}...", name)],
       [do |-> "show", ev |-> Progress("Bypassing security", PROGRESS_BAR_STEPS_INFILTRATE)],
       [do |-> "add"],
       [do |-> "show", ev |-> ShowAccessGranted],
       [do |-> "show", ev |-> Line(MsgRootObtained)] >>

InfiltrateTargets ==
    { None, MAINFRAME7, << "m", "a", "i", "n", "f", "r", "a", "m", "e", "-", "7" >>, QUANTUMDB,
      << "z", "z", "z", "z", "-", "9" >> }

\* no call of cmd_infiltrate is under way
BetweenCalls == IF call = NoCall THEN TRUE ELSE call.pc = 0

InfiltrateCall(at, name, e) ==
    [fn |-> "cmd_infiltrate", pc |-> at, name |-> name, before |-> infiltrated_targets,
     added |-> FALSE, err |-> e, at |-> 0]

\* the call and its two checks
InfiltrateBegin ==
    /\ BetweenCalls
    /\ \E target \in InfiltrateTargets :
         IF NoTarget(target)
           THEN /\ out' = << Line(MsgInfiltrateUsage) >>
                /\ call' = InfiltrateCall(0, target, NoError)
           ELSE IF TargetUnknown(InfiltrateName(target), discovered_targets)
           THEN /\ out' = << Line(MsgTargetNotFound) >>
                /\ call' = InfiltrateCall(0, InfiltrateName(target), NoError)
           ELSE /\ out' = <<>>
                /\ call' = InfiltrateCall(1, InfiltrateName(target), NoError)
    /\ last' = Op("cmd_infiltrate", "infiltrate", <<>>, "", NoneV)
    /\ UNCHANGED << unicode_mode, width_mode, discovered_targets, infiltrated_targets,
                    system_status, running, err, ret, everDiscovered, cnt, ops,
                    prevStatus, runVars, env >>

\* the next statement of the body runs to its end; after the last one the
\* function returns (pc 0)
InfiltrateStep ==
    /\ call.fn = "cmd_infiltrate" /\ call.pc > 0
    /\ LET body == InfiltrateBody(call.name)
           s == body[call.pc]
           next == IF call.pc = Len(body) THEN 0 ELSE call.pc + 1
       IN IF s.do = "add"
            THEN /\ infiltrated_targets' = infiltrated_targets \cup { call.name }
                 /\ call' = [call EXCEPT !.pc = next, !.added = TRUE]
                 /\ out' = out
            ELSE /\ out' = Append(out, s.ev)
                 /\ call' = [call EXCEPT !.pc = next]
                 /\ infiltrated_targets' = infiltrated_targets
    /\ UNCHANGED << unicode_mode, width_mode, discovered_targets, system_status, running,
                    err, ret, last, everDiscovered, cnt, ops, prevStatus, runVars, env >>

\* Ctrl-C while the next statement runs: the statement has no effect on the
\* session and KeyboardInterrupt leaves the function
InfiltrateInterrupt ==
    /\ call.fn = "cmd_infiltrate" /\ call.pc > 0
    /\ call' = [call EXCEPT !.pc = 0, !.err = ErrKeyboardInterrupt, !.at = call.pc]
    /\ UNCHANGED << sessionVars, runVars, env >>

\* scan, between two calls of cmd_infiltrate
InfiltrateScan ==
    /\ BetweenCalls
    /\ Scan

InfiltrateInit ==
    /\ \E um \in { "off", "on", "auto" } : Start(um, "auto")
    /\ NoRun
    /\ NoDisplay

InfiltrateNext ==
    \/ InfiltrateScan
    \/ InfiltrateBegin
    \/ InfiltrateStep
    \/ InfiltrateInterrupt

\* scans and calls of cmd_infiltrate, with an interrupt at any statement
InfiltrateSpec == InfiltrateInit /\ [][InfiltrateNext]_vars

(***************************************************************************)
(* Two instances of ApplicationState: the one a script passes to           *)
(* execute_command (the session variables) and the module-level app_state  *)
(* (env.app_state).  call holds what the last command rendered: each       *)
(* display event with the glyphs or the asset chosen for it.               *)
(***************************************************************************)
\* the instance whose display modes the display calls of a command read:
\* cmd_decrypt, cmd_trace and cmd_countertrace call progress() and
\* show_access_granted() without a state, which then take app_state
DisplayState(cmd, st, g) ==
    IF cmd \in { "decrypt", "trace", "countertrace", "evade" } THEN g ELSE st

\* what a display event puts on the terminal for the instance cfg
RenderEvent(ev, cfg, e) ==
    CASE ev.ev = "progress" -> << ev, get_progress_chars(cfg, e) >>
      [] ev.ev = "show_warning" -> << ev, get_warning_box(cfg, e).val >>
      [] ev.ev = "show_access_granted" -> << ev, get_access_granted(cfg, e).val >>
      [] OTHER -> << ev, "text" >>
Rendered(events, cfg, e) == [j \in 1..Len(events) |-> RenderEvent(events[j], cfg, e)]

ContextCmds == { "scan", "decrypt", "infiltrate", "hack", "trace", "countertrace", "status" }

\* execute_command(cmd, args, state) with the script's own instance
ExecuteOnState ==
    /\ running
    /\ ops < MaxOps
    /\ \E cmd \in ContextCmds, args \in FewArgLists :
         LET r == execute_command(cmd, args, app, NoDraw) IN
         /\ Commit(r, Op("execute_command", cmd, args, "", NoneV))
         /\ call' = [fn |-> "execute_command", on |-> "state",
                     before |-> [state |-> app, app_state |-> env.app_state],
                     rendered |-> Rendered(r.out, DisplayState(cmd, r.st, env.app_state), env)]
    /\ ops' = ops + 1
    /\ UNCHANGED << prevStatus, runVars, env >>

\* execute_command(cmd, args): state is None, so app_state is taken
ExecuteOnAppState ==
    /\ running
    /\ ops < MaxOps
    /\ \E cmd \in { "scan", "hack", "countertrace" } :
         LET r == execute_command(cmd, <<>>, env.app_state, NoDraw) IN
         /\ env' = [env EXCEPT !.app_state = r.st]
         /\ call' = [fn |-> "execute_command", on |-> "app_state",
                     before |-> [state |-> app, app_state |-> env.app_state],
                     rendered |-> Rendered(r.out, DisplayState(cmd, r.st, r.st), env)]
         /\ last' = Op("execute_command", cmd, <<>>, "", NoneV)
    /\ ops' = ops + 1
    /\ UNCHANGED << unicode_mode, width_mode, discovered_targets, infiltrated_targets,
                    system_status, running, out, err, ret, everDiscovered, cnt, prevStatus,
                    runVars >>

ContextModes == { << "off", "compact" >>, << "on", "wide" >>, << "auto", "auto" >> }

ContextInit ==
    /\ \E m \in ContextModes : Start(m[1], m[2])
    /\ NoRun
    /\ call = NoCall
    /\ \E m \in ContextModes, tty \in BOOLEAN :
          env = [kind |-> "module", app_state |-> NewState(m[1], m[2]),
                 os |-> EnvStr("size", 80), COLUMNS |-> Absent, TERM_COLS |-> Absent,
                 isatty |-> tty, LC_ALL |-> <<>>, LC_CTYPE |-> <<>>, LANG |-> LocaleUtf8,
                 TERM |-> Xterm256]

ContextNext ==
    \/ ExecuteOnState
    \/ ExecuteOnAppState

\* a script with an ApplicationState of its own next to app_state
ContextSpec == ContextInit /\ [][ContextNext]_vars

(***************************************************************************)
(* Properties.                                                             *)
(***************************************************************************)
IsCommand(l, cmd) == l.op = "execute_command" /\ l.cmd = cmd
FrameSession ==
    UNCHANGED << unicode_mode, width_mode, discovered_targets, infiltrated_targets,
                 system_status >>
CatalogNames == {MAINFRAME7, QUANTUMDB, SATELLITEX}

\* C1: in a session driven through execute_command, every name in
\* infiltrated_targets is the name of a target that is or once was in
\* discovered_targets.
C1_InfiltratedWereDiscovered == infiltrated_targets \subseteq everDiscovered

C1_Witness ==
    /\ IsCommand(last, "infiltrate")
    /\ infiltrated_targets # {}
    /\ Cardinality(infiltrated_targets) < Cardinality(everDiscovered)

\* C2: infiltrate X, when the upper-case form of X names no target of
\* discovered_targets, prints 'Target not found' and changes nothing of the
\* session state.
C2_DiscoveryGate ==
    [][ ( /\ IsCommand(last', "infiltrate")
          /\ Len(last'.args) > 0
          /\ Upper(last'.args[1]) \notin TargetNames(discovered_targets) )
        => ( /\ out' = << Line(MsgTargetNotFound) >>
             /\ FrameSession ) ]_vars

C2_Witness ==
    /\ IsCommand(last, "infiltrate")
    /\ Len(last.args) > 0
    /\ Upper(last.args[1]) \notin TargetNames(discovered_targets)
    /\ out = << Line(MsgTargetNotFound) >>
    /\ discovered_targets # <<>>

\* C3: on a fresh session, scan followed by infiltrate N, N a catalog name in
\* any letter case, leaves infiltrated_targets = {upper-case N} and shows the
\* success pane and the confirmation line.
C3_ScanThenInfiltrate ==
    [][ ( /\ cnt = 1
          /\ IsCommand(last, "scan")
          /\ IsCommand(last', "infiltrate")
          /\ Len(last'.args) > 0
          /\ Upper(last'.args[1]) \in CatalogNames )
        => ( /\ infiltrated_targets' = { Upper(last'.args[1]) }
             /\ Len(out') > 1
             /\ out'[Len(out') - 1] = ShowAccessGranted
             /\ out'[Len(out')] = Line(MsgRootObtained) ) ]_vars

C3_Witness ==
    /\ cnt = 2
    /\ IsCommand(last, "infiltrate")
    /\ last.args = << << "m", "a", "i", "n", "f", "r", "a", "m", "e", "-", "7" >> >>
    /\ infiltrated_targets = { MAINFRAME7 }
    /\ out[Len(out)] = Line(MsgRootObtained)

\* C4: execute_command with a command outside the dispatch table, or with
\* None, returns False and changes nothing of the session state.
C4_UnrecognizedNoEffect ==
    [][ ( /\ last'.op = "execute_command"
          /\ last'.cmd \notin DispatchTable )
        => ( /\ ret' = "False"
             /\ err' = NoError
             /\ FrameSession ) ]_vars

C4_Witness ==
    /\ last.op = "execute_command"
    /\ last.cmd \in {"foo", NoCmd}
    /\ ret = "False"
    /\ infiltrated_targets # {}
    /\ system_status["credits"] = IntV(1337)

\* the declared type of each status field
DeclaredType(key) ==
    CASE key \in {"online", "firewall", "stealth"} -> "bool"
      [] key = "security_level" -> "str"
      [] OTHER -> "int"

\* C5: an update_system_status(key, value) that fails for the type of value
\* leaves the stored field, and the rest of the session state, as it was.
C5_FailedUpdateAtomic ==
    [][ ( /\ last'.op = "update_system_status"
          /\ last'.key \in StatusKeys
          /\ err' # NoError )
        => FrameSession ]_vars

\* C6: system_status always has exactly the seven fields, each of its
\* declared type (an integer field holding what Python counts as an int).
C6_StatusTypeStable ==
    /\ DOMAIN system_status = StatusKeys
    /\ \A key \in StatusKeys :
          CASE DeclaredType(key) = "bool" -> system_status[key].t = "bool"
            [] DeclaredType(key) = "str" -> system_status[key].t = "str"
            [] OTHER -> system_status[key].t \in {"int", "bool"}

\* C7: update_system_status with a key that is not one of the seven fields
\* fails, adds no key and changes nothing of the session state.
C7_UnknownKeyRejected ==
    [][ ( /\ last'.op = "update_system_status"
          /\ last'.key \notin { "online", "security_level", "connections", "firewall",
                                "stealth", "compromised_systems", "credits" } )
        => ( /\ err' = ErrInvalidKey
             /\ ret' = "raise"
             /\ DOMAIN system_status' = DOMAIN system_status
             /\ FrameSession ) ]_vars

C7_Witness ==
    /\ last.op = "update_system_status"
    /\ last.key = "securityLevel"
    /\ err = ErrInvalidKey
    /\ DOMAIN system_status = StatusKeys
    /\ discovered_targets # <<>>

\* C8: update_system_status with a valid key fails whenever the type of the
\* value is not the declared type of the field, a boolean offered for an
\* integer field and an integer offered for a boolean field included.
C8_TypeMismatchRejected ==
    ( /\ last.op = "update_system_status"
      /\ last.key \in StatusKeys
      /\ last.val.t # DeclaredType(last.key) )
    => err # NoError

\* C9: scan leaves discovered_targets equal to the fixed three-entry catalog,
\* in catalog order, whatever it held before, and changes neither
\* infiltrated_targets nor system_status.
C9_ScanDeterministic ==
    [][ IsCommand(last', "scan")
        => ( /\ discovered_targets' =
                  << << MAINFRAME7, "low" >>, << QUANTUMDB, "high" >>,
                     << SATELLITEX, "medium" >> >>
             /\ UNCHANGED << infiltrated_targets, system_status >> ) ]_vars

C9_Witness ==
    /\ IsCommand(last, "scan")
    /\ Len(discovered_targets) = 3
    /\ infiltrated_targets # {}
    /\ system_status["credits"] = IntV(1337)

\* C10: hack sets compromised_systems to 5 and credits to 1337 whatever they
\* were, and changes no other status field, nor discovered_targets, nor
\* infiltrated_targets.
C10_HackOverwrites ==
    [][ IsCommand(last', "hack")
        => ( /\ system_status'["compromised_systems"] = IntV(5)
             /\ system_status'["credits"] = IntV(1337)
             /\ DOMAIN system_status' = DOMAIN system_status
             /\ \A key \in DOMAIN system_status \ {"compromised_systems", "credits"} :
                   system_status'[key] = system_status[key]
             /\ UNCHANGED << discovered_targets, infiltrated_targets >> ) ]_vars

\* hack executed in a state a hack had already changed
C10_Witness ==
    /\ IsCommand(last, "hack")
    /\ cnt = StepCap
    /\ system_status["compromised_systems"] = IntV(5)
    /\ system_status["credits"] = IntV(1337)
    /\ infiltrated_targets # {}

\* C11 as stated: status prints a line for each of the seven fields of
\* system_status, so its output changes when compromised_systems and credits
\* change: it is not the output status gives in the state hack leaves.
C11_StatusShowsSevenFields ==
    (IsCommand(last, "status") /\ err = NoError) =>
        /\ Len(out) = Cardinality(StatusKeys)
        /\ (HackStatus(system_status) # system_status =>
                cmd_status([app EXCEPT !.system_status = HackStatus(@)]).out # out)

\* the text status prints for a boolean field
OnlineText(b) == IF b THEN "ONLINE" ELSE "OFFLINE"
FirewallText(b) == IF b THEN "ENABLED" ELSE "DISABLED"
StealthText(b) == IF b THEN "ON" ELSE "OFF"
\* the state with the two counters of hack put back to their defaults
CountersCleared ==
    [app EXCEPT !.system_status =
        DictSet(DictSet(@, "compromised_systems", IntV(DEFAULT_COMPROMISED_SYSTEMS)),
                "credits", IntV(DEFAULT_CREDITS))]

\* C11, amended: status prints five lines, for online, security_level,
\* connections, firewall and stealth in this order; a boolean online, firewall
\* or stealth is printed as ONLINE/OFFLINE, ENABLED/DISABLED, ON/OFF;
\* security_level and connections are printed as they are; the output does not
\* depend on compromised_systems and credits, which status does not print.
C11_StatusShowsFiveFields ==
    IsCommand(last, "status") =>
        /\ (err = NoError => Len(out) = 5)
        /\ Len(out) >= 3
        /\ (IsBool(system_status["online"]) =>
                out[1] = LineVal("System Status: {}",
                                 StrV(OnlineText(system_status["online"].b))))
        /\ out[2] = LineVal("Security Level: {}", system_status["security_level"])
        /\ out[3] = LineVal("Active Connections: {}", system_status["connections"])
        /\ ((err = NoError /\ IsBool(system_status["firewall"])) =>
                out[4] = LineVal("Firewall: {}",
                                 StrV(FirewallText(system_status["firewall"].b))))
        /\ ((err = NoError /\ IsBool(system_status["stealth"])) =>
                out[5] = LineVal("Stealth Mode: {}",
                                 StrV(StealthText(system_status["stealth"].b))))
        /\ out = cmd_status(CountersCleared).out

C11_Witness ==
    /\ IsCommand(last, "status")
    /\ err = NoError
    /\ system_status["firewall"] = BoolV(FALSE)
    /\ system_status["credits"] = IntV(DEMO_HACK_CREDITS)

\* C12: status run twice in a row, nothing run in between, prints the same
\* output both times and leaves the session state as it was.
C12_StatusIdempotent ==
    [][(IsCommand(last, "status") /\ IsCommand(last', "status")) =>
            (out' = out /\ err' = err /\ FrameSession)]_vars

C12_Witness ==
    /\ prevStatus
    /\ IsCommand(last, "status")
    /\ system_status["firewall"] = BoolV(FALSE)

ReadOnlyCmds == {"help", "decrypt", "trace", "countertrace", "evade", "status"}

\* C13: help, decrypt, trace, countertrace, evade and status leave the session
\* state unchanged in every state and with every argument list; a command that
\* changes discovered_targets, infiltrated_targets or system_status is scan,
\* infiltrate or hack.
C13_ReadOnlyCommands ==
    [][/\ (last'.op = "execute_command" /\ last'.cmd \in ReadOnlyCmds) => FrameSession
       /\ (data' # data) =>
              (last'.op = "execute_command" /\ last'.cmd \in {"scan", "infiltrate", "hack"})
      ]_vars

C13_Witness ==
    /\ IsCommand(last, "evade")
    /\ Len(last.args) > 0
    /\ infiltrated_targets # {}
    /\ system_status["credits"] = IntV(DEMO_HACK_CREDITS)

\* C14: infiltrate and trace given no argument print their usage line and
\* nothing else (no warning pane, no progress animation) and leave the session
\* state unchanged.
C14_MissingArgumentUsage ==
    [][(last'.op = "execute_command" /\ last'.args = <<>>) =>
          /\ (last'.cmd = "infiltrate" =>
                (out' = << Line("Target required. Usage: infiltrate <target>") >>
                 /\ FrameSession))
          /\ (last'.cmd = "trace" =>
                (out' = << Line("Target required. Usage: trace <target>") >>
                 /\ FrameSession))
      ]_vars

C14_Witness ==
    /\ last.op = "execute_command"
    /\ last.cmd \in {"infiltrate", "trace"}
    /\ last.args = <<>>
    /\ discovered_targets # <<>>
    /\ \A i \in 1..Len(out) : out[i].ev = "print"

\* C15: trace X with a non-empty X prints a location line and an ISP line in
\* every state, whether or not X was discovered, and never the line that
\* says the target was not found.
C15_TraceUnrestricted ==
    (IsCommand(last, "trace") /\ Len(last.args) > 0) =>
        /\ err = NoError
        /\ Len(out) = 4
        /\ out[1] = LineName("Tracing {target}...", Upper(last.args[1]))
        /\ out[3].ev = "print"
        /\ out[3].text \in {"Location found: {coords}",
                            "Location found: {lat} deg N, {lon} deg W"}
        /\ out[4].ev = "print"
        /\ out[4].text = "ISP: {isp}"
        /\ \A i \in 1..Len(out) : out[i].text # "Target not found. Run 'scan' first."

C15_Witness ==
    /\ IsCommand(last, "trace")
    /\ Len(last.args) > 0
    /\ Upper(last.args[1]) \notin TargetNames(discovered_targets)
    /\ Upper(last.args[1]) \notin DOMAIN PREDEFINED_LOCATIONS
    /\ out[3].text = "Location found: {lat} deg N, {lon} deg W"

\* C16: every run that ends because of the exit command, the end of input, an
\* interrupt or an uncategorized failure, in whatever mode, ends in cmd_exit:
\* the process is ended by the sys.exit of cmd_exit, entered at least once.
C16_SingleTerminationPath ==
    (pc = "done" /\ cause \in {"exit", "eof", "interrupt", "failure"}) =>
        (via = "cmd_exit" /\ exits >= 1)

\* C17: whatever interrupts are delivered during a run, and whenever, cmd_exit
\* is never entered a second time, and a run that reached the loop of
\* interactive_mode and ended has entered cmd_exit exactly once.
C17_ExitEnteredOnce ==
    /\ exits <= 1
    /\ (pc = "done" /\ ctx # "main") => exits = 1

\* C18: in the interactive loop a command that answers with a user-facing
\* error (target not found, missing argument, command not recognized) leaves
\* the loop running at the prompt, with the process alive, cmd_exit not entered
\* and the session data as they were; a scan typed after such an error does
\* what scan does.
C18_ErrorsKeepLoopRunning ==
    [][/\ (pc = "prompt" /\ last'.op = "execute_command" /\ out' \in UserErrors) =>
            /\ pc' = "prompt"
            /\ running'
            /\ exitCode' = NoExitCode
            /\ exits' = exits
            /\ err' = NoError
            /\ FrameSession
       /\ (pc = "prompt" /\ errSeen /\ IsCommand(last', "scan")) =>
            /\ pc' = "prompt"
            /\ discovered_targets' = ScanCatalog
            /\ Len(out') = 2 + Len(ScanCatalog)
            /\ ret' = "True"
      ]_vars

C18_Witness ==
    /\ mode = "interactive"
    /\ pc = "prompt"
    /\ errSeen
    /\ IsCommand(last, "infiltrate")
    /\ ret = "True"
    /\ MAINFRAME7 \in infiltrated_targets
    /\ out[Len(out)] = Line("Root privileges obtained.")

\* what the seed 1337 makes the first draws be
SeededPick == Choice(DEMO_RANDOM_SEED % RngMod, Len(DecryptMessages))
SeededLat ==
    Uniform(DEMO_RANDOM_SEED % RngMod, COORDINATE_LAT_MIN, COORDINATE_LAT_MAX)
SeededLon ==
    Uniform(Step(DEMO_RANDOM_SEED % RngMod), COORDINATE_LON_MIN, COORDINATE_LON_MAX)
SeededIsp == Choice(Step(Step(DEMO_RANDOM_SEED % RngMod)), Len(FallbackIsps))
\* the run has executed its positional command and nothing after it
SingleCommandDone ==
    mode = "single" /\ last.op = "execute_command" /\ last.cmd = cmdline.cmd
        /\ pc \in {"done", "banner"} /\ via \in {"none", "return"}

\* C19: the demo script and the single-command mode seed the generator with
\* 1337 before any draw: when a command of such a run begins the generator is
\* in the state the seed and the draws made since determine, and what decrypt
\* and trace print in single-command mode is what the seed determines, the same
\* in every run of the same command line.
C19_SeededReplay ==
    /\ pc = "single" => rng = DEMO_RANDOM_SEED % RngMod
    /\ pc = "demo" => rng = DEMO_RANDOM_SEED % RngMod
    /\ (SingleCommandDone /\ last.cmd = "decrypt") =>
            out[2] = LineVal("Decrypted message: {message}",
                             StrV(DecryptMessages[SeededPick]))
    /\ (SingleCommandDone /\ last.cmd = "trace" /\ Len(out) = 4
          /\ Upper(last.args[1]) \notin DOMAIN PREDEFINED_LOCATIONS) =>
            /\ out[3] = LineVals("Location found: {lat} deg N, {lon} deg W",
                                 IntV(SeededLat), IntV(SeededLon))
            /\ out[4] = LineVal("ISP: {isp}", StrV(FallbackIsps[SeededIsp]))

C19_Witness ==
    /\ SingleCommandDone
    /\ pc = "done"
    /\ last.cmd = "trace"
    /\ Len(out) = 4
    /\ out[3].text = "Location found: {lat} deg N, {lon} deg W"
    /\ exitCode = EXIT_SUCCESS

\* the runs C20 is about: --script demo, and the positional command help
DemoOrHelp == mode = "demo" \/ (mode = "single" /\ cmdline = CmdLine("help", <<>>))

\* C20: the demo script, whatever the unicode mode, and the single command
\* help never wait for input or for a reply of the terminal and always end
\* with exit status 0; the demo script executes its seven commands in order,
\* each of them recognized, and ends in the cmd_exit of its exit command.
C20_BatchRunsTerminate ==
    /\ [](DemoOrHelp => pc \notin {"prompt", "handler", "probe", "banner"})
    /\ DemoOrHelp ~> (pc = "done" /\ exitCode = 0)
    /\ []((DemoOrHelp /\ exitCode # NoExitCode) => exitCode = 0)
    /\ []((mode = "demo" /\ last.op = "execute_command") =>
            /\ idx \in 2..(Len(DemoCommands) + 1)
            /\ last.cmd = DemoCommands[idx - 1].cmd
            /\ last.args = DemoCommands[idx - 1].args
            /\ last.cmd \in DispatchTable
            /\ ret # "False")
    /\ []((mode = "demo" /\ pc = "done") =>
            (idx = Len(DemoCommands) + 1 /\ last.cmd = "exit" /\ via = "cmd_exit" /\ exits = 1))

C20_Witness ==
    /\ mode = "demo"
    /\ unicode_mode = "auto"
    /\ pc = "done"
    /\ exitCode = 0
    /\ exits = 1
    /\ infiltrated_targets = {MAINFRAME7}
    /\ system_status["credits"] = IntV(DEMO_HACK_CREDITS)

\* the order of the tiers
TierRank(t) == CASE t = "compact" -> 1 [] t = "standard" -> 2 [] t = "wide" -> 3

\* C21: for every integer width w, classify_width(w) is compact iff w <= 62,
\* standard iff 63 <= w <= 99 and wide iff w >= 100: one tier for each w, and
\* a wider terminal never gets a lower tier.
C21_ClassifyWidth ==
    call.fn = "classify_width" =>
        /\ call.val \in {"compact", "standard", "wide"}
        /\ call.val = "compact" <=> call.arg <= 62
        /\ call.val = "standard" <=> (63 <= call.arg /\ call.arg <= 99)
        /\ call.val = "wide" <=> call.arg >= 100
        /\ \A v \in Widths :
              v <= call.arg => TierRank(classify_width(v)) <= TierRank(call.val)

C21_Witness ==
    /\ call.fn = "classify_width"
    /\ call.arg = 62
    /\ call.val = "compact"

\* what get_width_mode has returned, against the terminal it was called in
WidthModeResolved ==
    call.fn = "get_width_mode" =>
          /\ width_mode \in {"compact", "standard", "wide"} =>
                (call.val = width_mode /\ call.err = NoError)
          /\ (width_mode = "auto" /\ ~call.arg.isatty) =>
                (call.val = "standard" /\ call.err = NoError)
          /\ (width_mode = "auto" /\ call.arg.isatty
                 /\ call.arg.os.k = "size" /\ call.arg.os.n > 0) =>
                (call.err = NoError
                 /\ call.val = (IF call.arg.os.n <= 62 THEN "compact"
                                ELSE IF call.arg.os.n <= 99 THEN "standard" ELSE "wide"))
          /\ (width_mode = "auto" /\ call.arg.isatty
                 /\ get_terminal_width(call.arg).err = NoError) =>
                (call.err = NoError
                 /\ call.val = classify_width(get_terminal_width(call.arg).val))

C24_WidthFallbackChain ==
    call.fn = "get_terminal_width" =>
        LET o == call.arg.os
            c == call.arg.COLUMNS
            t == call.arg.TERM_COLS
        IN  /\ call.err = NoError
            /\ call.val > 0
            /\ call.val =
                  (IF o.k = "size" /\ o.n > 0 THEN o.n
                   ELSE IF c.k = "decimal" /\ c.n > 0 THEN c.n
                   ELSE IF t.k = "decimal" /\ t.n > 0 THEN t.n
                   ELSE 80)

\* the sample values that hold a utf-8 or utf8 marker in some case, and the
\* sample values of TERM that begin with a known identifier: as written, and
\* after lower-casing
MarkedLocales == { LocaleUtf8, LocaleUtf8Lower, LocaleUtf8Mixed, LocaleUtf8Upper }
TermsKnownAsWritten ==
    { Xterm256, Tmux256,
      << "s", "c", "r", "e", "e", "n", "-", "2", "5", "6", "c", "o", "l", "o", "r",
         "-", "b", "c", "e" >> }
TermsKnownAnyCase ==
    TermsKnownAsWritten \cup
        { << "X", "T", "E", "R", "M", "-", "2", "5", "6", "C", "O", "L", "O", "R" >> }
LocaleMarked(e) == \E val \in { e.LC_ALL, e.LC_CTYPE, e.LANG } : val \in MarkedLocales

\* C23 as stated: off gives false, on gives true; auto gives true iff a locale
\* variable holds a utf-8/utf8 marker in any case and the value of TERM starts
\* with one of the known identifiers; the probe is never run.
C23_UnicodeResolution ==
    call.fn = "should_use_unicode" =>
        /\ unicode_mode = "off" => call.val = FALSE
        /\ unicode_mode = "on" => call.val = TRUE
        /\ unicode_mode = "auto" =>
              (call.val <=> (LocaleMarked(call.arg) /\ call.arg.TERM \in TermsKnownAsWritten))
        /\ ~call.probed

\* C23, amended: as stated, with the value of TERM compared after it is
\* lower-cased, so that TERM matches the known identifiers in any case.
C23_UnicodeResolutionAnyCase ==
    call.fn = "should_use_unicode" =>
        /\ unicode_mode = "off" => call.val = FALSE
        /\ unicode_mode = "on" => call.val = TRUE
        /\ unicode_mode = "auto" =>
              (call.val <=> (LocaleMarked(call.arg) /\ call.arg.TERM \in TermsKnownAnyCase))
        /\ ~call.probed
        /\ call.err = NoError

C23_Witness ==
    /\ call.fn = "should_use_unicode"
    /\ unicode_mode = "auto"
    /\ call.arg = env
    /\ env.LANG = << "C" >>
    /\ env.LC_CTYPE = LocaleUtf8Lower
    /\ env.TERM = Tmux256
    /\ call.val = TRUE

FramesOf(c) == SelectSeq(c.lines, LAMBDA l : l.kind = "frame")

\* C25: for steps > 0 the bar is the label, the top border, then the frames
\* i = 0, 1, ..., steps in this order, frame i with i filled and steps - i
\* empty glyphs, the percentage floor(i * 100 / steps) and dots given by
\* i mod 3; the first frame shows 0, the last 100, percentages never
\* decrease, and the closing border follows the last frame.
C25_ProgressFrames ==
    (call.fn = "progress" /\ call.steps > 0) =>
        LET n == Len(call.lines)
            frames == FramesOf(call)
        IN /\ call.lines[1].kind = "label" /\ call.lines[2].kind = "border"
           /\ \A j \in 1..Len(frames) :
                 /\ call.lines[j + 2] = frames[j]
                 /\ frames[j].i = j - 1
                 /\ frames[j].filled = j - 1
                 /\ frames[j].empty = call.steps - (j - 1)
                 /\ frames[j].percent = ((j - 1) * 100) \div call.steps
                 /\ frames[j].dots = 3 - ((j - 1) % 3)
                 /\ j > 1 => frames[j - 1].percent <= frames[j].percent
           /\ Len(frames) >= 1 => frames[1].percent = 0
           /\ call.pc = "done" =>
                 /\ Len(frames) = call.steps + 1
                 /\ frames[Len(frames)].percent = 100
                 /\ n = call.steps + 4
                 /\ call.lines[n].kind = "border"
           /\ call.err = NoError

\* C26: progress with steps = 0 completes without error and renders only
\* the 100% frame.
C26_ZeroStepsGuard ==
    (call.fn = "progress" /\ call.steps = 0 /\ call.pc # "loop") =>
        /\ call.err = NoError
        /\ call.pc = "done"
        /\ Len(FramesOf(call)) = 1
        /\ FramesOf(call)[1].percent = 100

ProbeLeft == call.fn = "probe" /\ call.pc \in { "returned", "raised" }

\* C27: when the probe has changed the input mode of the terminal, the saved
\* attributes are back in force when it returns or raises, on every path.
C27_ProbeRestoresTerminal == (ProbeLeft /\ call.changed) => env.mode = call.old

\* C28: when an operating system or terminal error occurred at any step of
\* the probe, the probe returns false and no exception reaches the caller.
C28_ProbeSwallowsErrors ==
    (ProbeLeft /\ call.fault) => (call.pc = "returned" /\ call.val = FALSE /\ call.err = NoError)

\* the data of a session that has just been constructed
FreshSession ==
    [unicode_mode |-> "auto",
     width_mode |-> "auto",
     discovered_targets |-> <<>>,
     infiltrated_targets |-> {},
     system_status |->
         [online |-> BoolV(TRUE), security_level |-> StrV("MAXIMUM"),
          connections |-> IntV(3), firewall |-> BoolV(TRUE), stealth |-> BoolV(TRUE),
          compromised_systems |-> IntV(0), credits |-> IntV(0)]]

AfterReset == last.op = "reset_state"

\* C29: reset_state leaves the session data at the initial defaults (no
\* discovered and no infiltrated targets, status online, MAXIMUM, 3
\* connections, firewall and stealth on, 0 compromised systems, 0 credits)
\* and raises nothing; a command run after it gives the output, the result
\* and the state that it gives on a fresh session.
C29_ResetRestoresDefaults ==
    /\ [](AfterReset => (app = FreshSession /\ err = NoError))
    /\ [][(AfterReset /\ last'.op = "execute_command") =>
            LET r == execute_command(last'.cmd, last'.args, FreshSession, NoDraw)
            IN /\ out' = r.out
               /\ err' = r.err
               /\ ret' = r.ret
               /\ discovered_targets' = r.st.discovered_targets
               /\ infiltrated_targets' = r.st.infiltrated_targets
               /\ system_status' = r.st.system_status]_vars

C29_Witness ==
    /\ AfterReset
    /\ everDiscovered # {}
    /\ discovered_targets = <<>>
    /\ ops = 3

AddedName == last'.args[1]
NamesOf(disc) == { disc[j][1] : j \in 1..Len(disc) }
Distinct(disc) == \A j, k \in 1..Len(disc) : j # k => disc[j][1] # disc[k][1]

\* C30 as stated: add_discovered_target fails and leaves discovered as it is
\* when the name is in discovered already; in every other case it appends
\* the target after the existing ones.
C30_AddDiscoveredOrFail ==
    [][last'.op = "add_discovered_target" =>
         IF AddedName \in NamesOf(discovered_targets)
           THEN err' # NoError /\ discovered_targets' = discovered_targets
           ELSE /\ err' = NoError
                /\ discovered_targets' = Append(discovered_targets, << AddedName, last'.key >>)]_vars

\* C30, amended: the call also fails, with discovered left as it is, when the
\* name is blank or the type is empty; a call with a name that is not blank,
\* a type that is not empty and a name not yet in discovered appends the
\* target after the existing ones.  Names that were distinct stay distinct
\* and keep their order.
C30_AddDiscoveredValidated ==
    /\ []Distinct(discovered_targets)
    /\ [][last'.op = "add_discovered_target" =>
            /\ IF \/ AddedName \in NamesOf(discovered_targets)
                  \/ AddedName \in { <<>>, << " " >> }
                  \/ last'.key = ""
                 THEN err' # NoError /\ discovered_targets' = discovered_targets
                 ELSE /\ err' = NoError
                      /\ discovered_targets' =
                             Append(discovered_targets, << AddedName, last'.key >>)
            /\ Distinct(discovered_targets) => Distinct(discovered_targets')
            /\ SubSeq(discovered_targets', 1, Len(discovered_targets)) = discovered_targets]_vars

C30_Witness ==
    /\ last.op = "add_discovered_target"
    /\ err = ErrDuplicate
    /\ Len(discovered_targets) = 2
    /\ discovered_targets[1][1] # discovered_targets[2][1]
    /\ last.args[1] = discovered_targets[1][1]

\* C31: add_infiltrated_target fails for an empty or whitespace-only name and
\* leaves infiltrated as it is; for every other name it succeeds and adds the
\* name to infiltrated, whether or not the name is in discovered.
C31_AddInfiltratedNoDiscoveryCheck ==
    [][last'.op = "add_infiltrated_target" =>
         IF AddedName \in { <<>>, << " " >> }
           THEN err' # NoError /\ infiltrated_targets' = infiltrated_targets
           ELSE /\ err' = NoError
                /\ infiltrated_targets' = infiltrated_targets \cup { AddedName }]_vars

C31_Witness ==
    /\ last.op = "add_infiltrated_target"
    /\ err = NoError
    /\ last.args[1] \in infiltrated_targets
    /\ last.args[1] \notin NamesOf(discovered_targets)
    /\ discovered_targets # <<>>

Blank(c) == c \in { " ", "\t" }
\* the places where a run of characters that are not blank begins
TokenStarts(line) ==
    { j \in 1..Len(line) : ~Blank(line[j]) /\ (j = 1 \/ Blank(line[j - 1])) }
\* the run that begins at place j
TokenAt(line, j) ==
    SubSeq(line, j,
           CHOOSE k \in j..Len(line) :
               /\ \A m \in j..k : ~Blank(line[m])
               /\ k = Len(line) \/ Blank(line[k + 1]))
\* the place where the n-th run begins
NthStart(line, n) ==
    CHOOSE j \in TokenStarts(line) : Cardinality({ k \in TokenStarts(line) : k <= j }) = n
LowerSample(tok) == [j \in 1..Len(tok) |-> IF tok[j] = "S" THEN "s" ELSE tok[j]]

\* C32: a line that is empty or all whitespace parses to (None, []); else the
\* command is the first whitespace-separated token in lower case and the
\* arguments are the other tokens in order as written; whitespace added in
\* front, at the end or next to other whitespace does not change the result.
C32_ParseCommand ==
    call.fn = "parse_command" =>
        LET line == call.arg
            n == Cardinality(TokenStarts(line))
        IN /\ n = 0 => call.val = [cmd |-> << "<None>" >>, args |-> <<>>]
           /\ n > 0 =>
                 /\ call.val.cmd = LowerSample(TokenAt(line, NthStart(line, 1)))
                 /\ Len(call.val.args) = n - 1
                 /\ \A a \in 1..(n - 1) :
                       call.val.args[a] = TokenAt(line, NthStart(line, a + 1))
           /\ \A ws \in { " ", "\t" } :
                 /\ parse_command(<< ws >> \o line) = call.val
                 /\ parse_command(line \o << ws >>) = call.val
                 /\ \A j \in 1..Len(line) :
                       Blank(line[j]) =>
                           parse_command(SubSeq(line, 1, j) \o << ws >>
                                             \o SubSeq(line, j + 1, Len(line))) = call.val
           /\ call.err = NoError

C32_Witness ==
    /\ call.fn = "parse_command"
    /\ call.arg = << " ", "S", "\t", " ", "S", "c" >>
    /\ call.val = [cmd |-> << "s" >>, args |-> << << "S", "c" >> >>]

\* the dispatch-table names whose handlers return
ReturningCmds ==
    { "help", "scan", "decrypt", "infiltrate", "hack", "trace", "countertrace", "evade",
      "status", "clear" }

\* C33: execute_command returns True iff the command is one of help, scan,
\* decrypt, infiltrate, hack, trace, countertrace, evade, status, clear and
\* the call returns normally; what the command achieved plays no part.
C33_ReturnsTrueIffDispatched ==
    last.op = "execute_command" =>
        /\ ret = "True" <=> (last.cmd \in ReturningCmds /\ err = NoError)
        /\ ret = "False" <=> last.cmd \notin (ReturningCmds \cup { "exit" })
        /\ last.cmd \in ReturningCmds \ { "status" } => err = NoError

C33_Witness ==
    /\ last.op = "execute_command"
    /\ last.cmd = "infiltrate"
    /\ last.args = << << "z", "z", "z", "z", "-", "9" >> >>
    /\ discovered_targets # <<>>
    /\ infiltrated_targets = {}
    /\ ret = "True"

\* the asset authored for each kind, tier and character set
AssetMatrix ==
    [kind \in { "get_banner", "get_access_granted", "get_warning_box" } |->
        [tier \in { "compact", "standard", "wide" } |->
            [unicode \in BOOLEAN |->
                CASE kind = "get_banner" /\ tier = "compact" ->
                        IF unicode THEN "COMPACT_UNICODE_BANNER" ELSE "COMPACT_ASCII_BANNER"
                  [] kind = "get_banner" /\ tier = "standard" ->
                        IF unicode THEN "STANDARD_UNICODE_BANNER" ELSE "STANDARD_ASCII_BANNER"
                  [] kind = "get_banner" /\ tier = "wide" ->
                        IF unicode THEN "WIDE_UNICODE_BANNER" ELSE "WIDE_ASCII_BANNER"
                  [] kind = "get_access_granted" /\ tier = "compact" ->
                        IF unicode THEN "COMPACT_UNICODE_ACCESS_GRANTED"
                        ELSE "COMPACT_ACCESS_GRANTED"
                  [] kind = "get_access_granted" /\ tier = "standard" ->
                        IF unicode THEN "STANDARD_UNICODE_ACCESS_GRANTED"
                        ELSE "STANDARD_ACCESS_GRANTED"
                  [] kind = "get_access_granted" /\ tier = "wide" ->
                        IF unicode THEN "WIDE_UNICODE_ACCESS_GRANTED" ELSE "WIDE_ACCESS_GRANTED"
                  [] kind = "get_warning_box" /\ tier = "compact" ->
                        IF unicode THEN "COMPACT_UNICODE_WARNING_BOX" ELSE "COMPACT_WARNING_BOX"
                  [] kind = "get_warning_box" /\ tier = "standard" ->
                        IF unicode THEN "STANDARD_UNICODE_WARNING_BOX"
                        ELSE "STANDARD_WARNING_BOX"
                  [] OTHER ->
                        IF unicode THEN "WIDE_UNICODE_WARNING_BOX" ELSE "WIDE_WARNING_BOX"]]]

\* C34: each getter returns the asset of the matrix for its kind, the
\* resolved tier and the unicode decision, and nothing else decides the
\* asset; in one state and environment the three kinds are chosen with the
\* same tier and the same unicode decision.
C34_AssetLookup ==
    call.fn \in AssetKinds =>
        LET tier == get_width_mode(app, call.arg)
            unicode == should_use_unicode(app, call.arg)
        IN IF tier.err # NoError THEN call.err = tier.err
           ELSE /\ call.err = NoError
                /\ call.val = AssetMatrix[call.fn][tier.val][unicode]
                /\ \A kind \in AssetKinds :
                      GetAsset(kind, app, call.arg) = Ret(AssetMatrix[kind][tier.val][unicode])

C34_Witness ==
    /\ call.fn = "get_warning_box"
    /\ call.arg = env
    /\ width_mode = "auto" /\ unicode_mode = "auto"
    /\ env.isatty /\ env.os = EnvStr("oserror", 0) /\ env.COLUMNS = EnvStr("decimal", 120)
    /\ call.val = "WIDE_UNICODE_WARNING_BOX"

\* what a successful infiltrate shows, in order
PaneOrder(name) ==
    << ShowWarning, LineName("Infiltrating {target}...", name),
       Progress("Bypassing security", PROGRESS_BAR_STEPS_INFILTRATE),
       ShowAccessGranted, Line(MsgRootObtained) >>
Refused == out \in { << Line(MsgInfiltrateUsage) >>, << Line(MsgTargetNotFound) >> }
AnimationDone == Len(out) >= 3

\* C35 as stated: a successful infiltrate shows the warning pane, runs the
\* animation, inserts the name, shows the success pane and the confirmation
\* in this order; the name is not in infiltrated at any point before the
\* animation has completed.
C35_InfiltrateOrder ==
    (last.op = "cmd_infiltrate" /\ ~Refused) =>
        /\ out = SubSeq(PaneOrder(call.name), 1, Len(out))
        /\ ~AnimationDone => call.name \notin infiltrated_targets
        /\ Len(out) > 3 => call.name \in infiltrated_targets

\* C35, amended: the same order; the name is not inserted before the
\* animation has completed (it is in infiltrated earlier only when an
\* earlier infiltrate put it there), so infiltrated is as the call found it
\* until then, also when an interrupt ends the call during the warning pane
\* or the animation; the success pane is shown after the insertion.
C35_InfiltrateInsertsAfterAnimation ==
    last.op = "cmd_infiltrate" =>
        IF Refused
          THEN infiltrated_targets = call.before /\ ~call.added
          ELSE /\ Len(out) <= 5
               /\ out = SubSeq(PaneOrder(call.name), 1, Len(out))
               /\ ~AnimationDone => (~call.added /\ infiltrated_targets = call.before)
               /\ call.added => infiltrated_targets = call.before \cup { call.name }
               /\ Len(out) > 3 => call.added
               /\ (call.err = "KeyboardInterrupt" /\ call.at <= 3) =>
                     infiltrated_targets = call.before
               /\ (call.pc = 0 /\ call.err = NoError) => (Len(out) = 5 /\ call.added)

C35_Witness ==
    /\ last.op = "cmd_infiltrate"
    /\ call.err = "KeyboardInterrupt"
    /\ call.at = 3
    /\ call.name = MAINFRAME7
    /\ out = << ShowWarning, LineName("Infiltrating {target}...", MAINFRAME7) >>
    /\ infiltrated_targets = { QUANTUMDB }

\* C36: a command run by execute_command(cmd, args, state) renders its
\* progress bars and panes with the display modes of the state passed in and
\* reads and writes the data of that instance only: commands run against one
\* instance leave the data of the other as it was.
C36_ExplicitContext ==
    call.fn = "execute_command" =>
        /\ call.on = "state" =>
              /\ call.rendered = Rendered(out, app, env)
              /\ env.app_state = call.before.app_state
        /\ call.on = "app_state" =>
              /\ call.rendered =
                    Rendered(execute_command(last.cmd, last.args, call.before.app_state,
                                             NoDraw).out,
                             env.app_state, env)
              /\ app = call.before.state


\* C37: validate_state succeeds only for a state in which every infiltrated
\* name is the name of a discovered target: whenever update_system_status
\* has run validate_state on the session and it returned True, infiltrated
\* is a subset of the discovered names.
C37_ValidateChecksInfiltrated ==
    (last.op = "update_system_status" /\ err = NoError /\ validate_state(app) = NoError)
        => infiltrated_targets \subseteq NamesOf(discovered_targets)


\* C38: in a session driven through execute_command from a fresh state,
\* discovered is empty or is the scan catalog, MAINFRAME-7 (low), QUANTUM-DB
\* (high), SATELLITE-X (medium) in this order, and every infiltrated name is
\* one of the three catalog names.
C38_CatalogOnly ==
    /\ \/ discovered_targets = <<>>
       \/ discovered_targets =
             << << MAINFRAME7, "low" >>, << QUANTUMDB, "high" >>, << SATELLITEX, "medium" >> >>
    /\ infiltrated_targets \subseteq { MAINFRAME7, QUANTUMDB, SATELLITEX }

C38_Witness ==
    /\ Len(discovered_targets) = 3
    /\ QUANTUMDB \in infiltrated_targets
    /\ last.cmd = "scan"

\* C39: no command changes online, security_level, connections, firewall or
\* stealth, which stay True, MAXIMUM, 3, True, True; between commands
\* compromised_systems and credits are both at their initial values (0, 0)
\* or both at the hack values (5, 1337).
C39_StatusFields ==
    /\ system_status["online"] = BoolV(TRUE)
    /\ system_status["security_level"] = StrV("MAXIMUM")
    /\ system_status["connections"] = IntV(3)
    /\ system_status["firewall"] = BoolV(TRUE)
    /\ system_status["stealth"] = BoolV(TRUE)
    /\ << system_status["compromised_systems"], system_status["credits"] >>
          \in { << IntV(0), IntV(0) >>, << IntV(5), IntV(1337) >> }

C39_Witness ==
    /\ system_status["credits"] = IntV(1337)
    /\ system_status["compromised_systems"] = IntV(5)
    /\ last.cmd = "hack"

\* C40: under commands infiltrated only grows: no command, a later scan, a
\* hack, a failed or a repeated infiltrate among them, removes a name from
\* it, and a name infiltrated again is held once.
C40_InfiltratedGrows ==
    [][/\ infiltrated_targets \subseteq infiltrated_targets'
       /\ (last'.cmd = "infiltrate" /\ out' # <<>> /\ out'[1] = ShowWarning)
             => infiltrated_targets' = infiltrated_targets \cup { Upper(last'.args[1]) }
       /\ Cardinality(infiltrated_targets') <= Cardinality(infiltrated_targets) + 1]_vars

\* a successful infiltrate of MAINFRAME-7 that leaves it the one name held
C40_Witness ==
    /\ infiltrated_targets = { MAINFRAME7 }
    /\ last.cmd = "infiltrate"
    /\ last.args = << MAINFRAME7 >>
    /\ out # <<>>
    /\ out[1] = ShowWarning
    /\ Len(discovered_targets) = 3

====
